---- MODULE Spec2Model ----
(***************************************************************************)
(* A model of the sharded object pool of src/src/object_pool.c: sub-pools  *)
(* guarded by one mutex each, the backpressure queue of parked requests,   *)
(* and the operations pool_acquire, pool_release, pool_grow, pool_shrink   *)
(* as they are executed by several threads.                                *)
(*                                                                         *)
(* A step of a thread is either a critical section (from uv_mutex_lock to  *)
(* the matching uv_mutex_unlock) or a run of unlocked statements between   *)
(* two critical sections.  pool_release keeps the sub-pool mutex across    *)
(* two steps, because it releases the queue mutex before it calls the      *)
(* parked callback.                                                        *)
(*                                                                         *)
(* Slots are numbered from 0 in the source; the sequences objects and used *)
(* hold slot j at position j + 1.                                          *)
(***************************************************************************)
EXTENDS Integers, Sequences, FiniteSets, TLC

\* ------------------------------------------------------------------ bounds
MaxPoolSize == 2
MaxShards == 2
MaxResize == 2
MaxAddr == 4
MaxSlots == 4
InitQueueCapacity == 1
MaxOps == 3
MaxOpsSeq == 4
MaxOpsLease == 6
MaxOpsLeaseSeq == 5
MaxOpsLocks == 4
MaxOpsFourTwo == 5
AcquirePerThread == 3

Threads == {"t1", "t2"}

\* ---------------------------------------------------------------- pointers
\* Addr are the addresses of objects of this pool, Wild stands for every
\* pointer that is none of them.
NULL == 0
Addr == 1..MaxAddr
Wild == MaxAddr + 1
Ptr == Addr \cup {Wild}

\* The largest size_t, scaled: used_count-- at 0 wraps to it.
SIZE_MAX == 1000000

\* sub_pools  the sub-pools: objects, used, pool_size and the counters
\* pool       the fields of object_pool; request_queue holds the parked
\*            requests, so queue_size is its length
\* dangling   per sub-pool, the arrays whose block was freed while the
\*            sub-pool still points to it
\* heap       the objects allocator.alloc returned and allocator.free has
\*            not taken back
\* metadata   the header in front of each object: sub-pool and index
\* th         per thread, the position in its call and the locals of the call
\* live       per pointer, the deliveries not yet followed by a successful
\*            return
\* served     the contexts of the parked requests in the order their
\*            callbacks were called; a context is the number of the arrival
\* arrivals   the number of requests parked so far
\* budget     the number of calls still to be made
\* active     the threads that make calls
\* pre        in runs of one thread, the state in which the last call started
VARIABLES sub_pools, pool, dangling, heap, metadata, th,
          live, served, arrivals, budget, active, pre

vars == <<sub_pools, pool, dangling, heap, metadata, th,
          live, served, arrivals, budget, active, pre>>

\* ----------------------------------------------------------------- helpers
Min(S) == CHOOSE x \in S : \A y \in S : x <= y

Shards == 0..(pool.sub_pool_count - 1)

Inc(x) == IF x = SIZE_MAX THEN 0 ELSE x + 1

\* Dec as it would be if sub->used_count-- were missing.
DecNot(x) == x

Dec(x) == IF x = 0 THEN SIZE_MAX ELSE x - 1

CountTrue(uv) == Cardinality({j \in 1..Len(uv) : uv[j]})

Fill(n, v) == [j \in 1..n |-> v]

NoReq == [callback |-> FALSE, context |-> 0]

IdleThread == [pc |-> "idle", op |-> "none", arg |-> 0, start_idx |-> 0,
               attempt |-> 0, sub |-> 0, obj_idx |-> 0, object |-> NULL,
               total |-> 0, req |-> NoReq, ret |-> 0,
               errs |-> <<>>, called |-> <<>>, valid |-> <<>>,
               hooks |-> <<>>,
               phase |-> "none", ctx |-> 0, objects |-> <<>>, i |-> 0]

\* acquire_thread of src/tests/common.c, from the return of one of its two
\* calls on: a thread that got an object from pool_acquire holds it
\* ("direct"), a thread that got NULL waits for its callback, with the
\* context of its parked request in ctx; after pool_release the thread ends.
acquire_thread(r, rv) ==
    IF r.op = "acquire"
    THEN IF rv # NULL
         THEN [IdleThread EXCEPT !.phase = "direct", !.object = rv]
         ELSE [IdleThread EXCEPT
                  !.phase = "waiting",
                  !.ctx = IF \E i \in 1..Len(r.errs) :
                                r.errs[i] \in {"EXHAUSTED", "QUEUE_FULL"}
                          THEN 0 ELSE arrivals + 1]
    ELSE [IdleThread EXCEPT
             !.phase = IF r.phase = "direct" THEN "done_direct"
                       ELSE "done_callback"]

\* thread_test of src/tests/test_thread_safety.c, from the return of one of
\* its calls on: a leased object is stored in objects, after acquire_count
\* leases the objects are returned one by one, and the thread ends.  errs
\* collects what the error callback was called with.
thread_test(r, rv) ==
    LET objects == IF r.op = "acquire" /\ rv # NULL
                   THEN Append(r.objects, rv) ELSE r.objects
        bound == IF r.phase = "acquiring" THEN AcquirePerThread
                 ELSE Len(objects)
        next == [IdleThread EXCEPT !.objects = objects, !.errs = r.errs]
    IN  IF r.i + 1 < bound
        THEN [next EXCEPT !.phase = r.phase, !.i = r.i + 1]
        ELSE IF r.phase = "acquiring" /\ Len(objects) > 0
        THEN [next EXCEPT !.phase = "releasing"]
        ELSE [next EXCEPT !.phase = "joined"]

\* main of the backpressure program of src/TUTORIAL.md, from the return of
\* one of its calls on: the pool is exhausted lease by lease, one request is
\* parked, objects[0] is returned, then the other objects, then the pool is
\* destroyed.  ctx tells what the parked callback does with its object:
\* 1 for on_acquire as written, which returns it through the context, 0 for
\* the callback that keeps it ("in a real app, this might be delayed").
TutorialPhases == {"exhausting", "parking", "triggering", "cleanup",
                   "destroying"}

tutorial_main(r, rv) ==
    LET objects == IF r.phase = "exhausting" /\ rv # NULL
                   THEN Append(r.objects, rv) ELSE r.objects
        next == [IdleThread EXCEPT !.objects = objects, !.ctx = r.ctx]
    IN  CASE r.phase = "exhausting" ->
               IF rv # NULL /\ Len(objects) < pool.total_objects_allocated
               THEN [next EXCEPT !.phase = "exhausting"]
               ELSE [next EXCEPT !.phase = "parking"]
          [] r.phase = "parking" -> [next EXCEPT !.phase = "triggering"]
          [] r.phase = "triggering" ->
               IF Len(objects) > 1
               THEN [next EXCEPT !.phase = "cleanup", !.i = 1]
               ELSE [next EXCEPT !.phase = "destroying"]
          [] OTHER ->
               IF r.i + 1 < Len(objects)
               THEN [next EXCEPT !.phase = "cleanup", !.i = r.i + 1]
               ELSE [next EXCEPT !.phase = "destroying"]

\* The call of thread record r returns rv: the locals of the call are dropped.
\* Single-threaded runs remember the call, its result, the errors it reported,
\* the callbacks it invoked, the answers of allocator.validate to
\* pool_release and the hooks it called until the next call.  A thread that runs acquire_thread or
\* thread_test goes on with it.
Return(r, rv) ==
    IF r.phase \in {"acquiring", "releasing"} THEN thread_test(r, rv)
    ELSE IF r.phase \in TutorialPhases THEN tutorial_main(r, rv)
    ELSE IF r.phase # "none" THEN acquire_thread(r, rv)
    ELSE IF Cardinality(active) = 1
    THEN [IdleThread EXCEPT !.op = r.op, !.arg = r.arg, !.ret = rv,
                            !.object = r.object,
                            !.errs = r.errs, !.called = r.called,
                            !.valid = r.valid, !.hooks = r.hooks]
    ELSE IdleThread

\* Reset as it would be if allocator.reset were not called.
ResetNot(r, object) == r

\* The hooks of the allocator and the parked callback, called with object:
\* hooks holds the calls made by the call under way, in their order.
Reset(r, object) == [r EXCEPT !.hooks = Append(@, <<"reset", object>>)]

OnReuse(r, object) == [r EXCEPT !.hooks = Append(@, <<"on_reuse", object>>)]

Callback(r, object) == [r EXCEPT !.hooks = Append(@, <<"callback", object>>)]

\* report_error as it would be if the error callback were not called.
ReportNothing(r, kind) == r

\* report_error(pool, kind, message): the error callback is called once.
report_error(r, kind) == [r EXCEPT !.errs = Append(@, kind)]

\* ReportN as it would be if line 681 were missing.
ReportNoSlot(r, kind, n) == r

\* n calls of report_error(pool, kind, message), one for each slot that the
\* scan of lines 678-700 passes over at line 681.
ReportN(r, kind, n) == [r EXCEPT !.errs = @ \o Fill(n, kind)]

\* What a read of the arrays of sub-pool s can yield at position j.  An array
\* whose block was freed while sub_pools[s] still points to it is read from
\* the heap: a slot of objects yields what was last stored there, NULL or a
\* pointer that is no object; a slot of used yields any flag.
ObjIn(sp, dg, s, j) ==
    IF "objects" \in dg[s]
    THEN {sp[s].objects[j], NULL, Wild}
    ELSE {sp[s].objects[j]}

ObjAt(s, j) == ObjIn(sub_pools, dangling, s, j)

FlagAt(s, j) ==
    IF "used" \in dangling[s] THEN BOOLEAN ELSE {sub_pools[s].used[j]}

\* A write to the flags of sub-pool s.  What a dangling array of flags holds
\* is not part of the state: the kept sequence only has its length.
StoreUsed(s, uv) ==
    IF "used" \in dangling[s] THEN Fill(Len(uv), FALSE) ELSE uv

\* allocator.validate: default_validate accepts every non-NULL pointer, a
\* custom hook answers as it likes.
ValidateOne == IF pool.validate = "default" THEN {TRUE} ELSE BOOLEAN

pool_capacity == LET RECURSIVE Sum(_)
                     Sum(i) == IF i = pool.sub_pool_count THEN 0
                               ELSE sub_pools[i].pool_size + Sum(i + 1)
                 IN  Sum(0)

UsedTotal == LET RECURSIVE Sum(_)
                 Sum(i) == IF i = pool.sub_pool_count THEN 0
                           ELSE sub_pools[i].used_count + Sum(i + 1)
             IN  Sum(0)

\* The state a call starts in, with the object whose return the call before
\* it refused because allocator.validate rejected it (NULL for none).
Snapshot(t) ==
    [valid |-> TRUE, sub_pools |-> sub_pools, pool |-> pool,
     dangling |-> dangling, heap |-> heap, metadata |-> metadata,
     capacity |-> pool_capacity, used |-> UsedTotal,
     refused |-> IF th[t].op = "release" /\ th[t].valid = <<FALSE>>
                 THEN th[t].object ELSE NULL]

NoSnapshot == [valid |-> FALSE]

\* A thread starts a call: one more operation, and in single-threaded runs
\* the state at the call is remembered.
Begin(t) ==
    /\ t \in active
    /\ th[t].pc = "idle"
    /\ budget > 0
    /\ budget' = budget - 1
    /\ pre' = IF Cardinality(active) = 1 THEN Snapshot(t) ELSE pre

\* -------------------------------------------------------------------- Init
\* pool_create(pool_size, sub_pool_count, allocator, ...) succeeded.
CreatedSize(pool_size, sub_pool_count, i) ==
    LET base_size == pool_size \div sub_pool_count
        remainder == pool_size % sub_pool_count
        sz == base_size + (IF i < remainder THEN 1 ELSE 0)
    IN  IF sz = 0 /\ pool_size > 0 THEN 1 ELSE sz

CreatedFirst(pool_size, sub_pool_count, i) ==
    LET RECURSIVE Before(_)
        Before(k) == IF k = 0 THEN 0
                     ELSE CreatedSize(pool_size, sub_pool_count, k - 1) + Before(k - 1)
    IN  Before(i)

pool_create(pool_size, sub_pool_count, validate) ==
    /\ sub_pools = [i \in 0..(sub_pool_count - 1) |->
          LET sz == CreatedSize(pool_size, sub_pool_count, i)
              first == CreatedFirst(pool_size, sub_pool_count, i)
          IN  [objects |-> [j \in 1..sz |-> first + j],
               used |-> Fill(sz, FALSE),
               pool_size |-> sz,
               used_count |-> 0,
               max_used |-> 0,
               acquire_count |-> 0,
               release_count |-> 0,
               mutex |-> "none"]]
    /\ pool = [sub_pool_count |-> sub_pool_count,
               total_objects_allocated |-> pool_size,
               grow_count |-> 0,
               shrink_count |-> 0,
               request_queue |-> <<>>,
               queue_capacity |-> InitQueueCapacity,
               queue_max_size |-> 0,
               queue_grow_count |-> 0,
               max_used |-> 0,
               validate |-> validate,
               queue_mutex |-> "none"]
    /\ dangling = [i \in 0..(sub_pool_count - 1) |-> {}]
    /\ heap = 1..(CreatedFirst(pool_size, sub_pool_count, sub_pool_count))
    /\ metadata = [a \in Addr |->
          IF \E i \in 0..(sub_pool_count - 1) :
                /\ a > CreatedFirst(pool_size, sub_pool_count, i)
                /\ a <= CreatedFirst(pool_size, sub_pool_count, i + 1)
          THEN LET i == CHOOSE i \in 0..(sub_pool_count - 1) :
                          /\ a > CreatedFirst(pool_size, sub_pool_count, i)
                          /\ a <= CreatedFirst(pool_size, sub_pool_count, i + 1)
               IN  [sub_pool |-> i,
                    index |-> a - CreatedFirst(pool_size, sub_pool_count, i) - 1]
          ELSE [sub_pool |-> 0, index |-> 0]]

Created ==
    /\ \E pool_size \in 1..MaxPoolSize, sub_pool_count \in 1..MaxShards,
          validate \in {"default", "custom"} :
            pool_create(pool_size, sub_pool_count, validate)
    /\ th = [t \in Threads |-> IdleThread]
    /\ live = [p \in Ptr |-> 0]
    /\ served = <<>>
    /\ arrivals = 0
    /\ pre = NoSnapshot

Init ==
    /\ Created
    /\ active = Threads
    /\ budget = MaxOps

InitLease ==
    /\ Created
    /\ active = Threads
    /\ budget = MaxOpsLease

InitSeq ==
    /\ Created
    /\ active = {"t1"}
    /\ budget = MaxOpsSeq

InitLeaseSeq ==
    /\ Created
    /\ active = {"t1"}
    /\ budget = MaxOpsLeaseSeq

\* pool_create(4, 2, allocator, ...) with the default validate hook, used by
\* one thread.
InitFourTwo ==
    /\ pool_create(4, 2, "default")
    /\ th = [t \in Threads |-> IdleThread]
    /\ live = [p \in Ptr |-> 0]
    /\ served = <<>>
    /\ arrivals = 0
    /\ pre = NoSnapshot
    /\ active = {"t1"}
    /\ budget = MaxOpsFourTwo

\* ------------------------------------------------------------ pool_acquire
AcquireStart(t) ==
    /\ Begin(t)
    /\ \E callback \in BOOLEAN, start_idx \in Shards :
          th' = [th EXCEPT ![t] = [IdleThread EXCEPT
                     !.pc = "acquire_probe", !.op = "acquire",
                     !.arg = IF callback THEN 1 ELSE 0,
                     !.start_idx = start_idx]]
    /\ UNCHANGED <<sub_pools, pool, dangling, heap, metadata,
                   live, served, arrivals, active>>

\* Scan as it would be if the loop of lines 678-700 went on after a free
\* valid slot and took the last one it saw.
RECURSIVE ScanLast(_, _, _)
ScanLast(s, j, skipped) ==
    IF j > sub_pools[s].pool_size
    THEN {[slot |-> 0, object |-> NULL, skipped |-> skipped]}
    ELSE UNION {IF used THEN ScanLast(s, j + 1, skipped)
                ELSE IF obj = NULL \/ ~valid
                THEN ScanLast(s, j + 1, skipped + 1)
                ELSE {IF x.slot = 0
                      THEN [slot |-> j, object |-> obj, skipped |-> x.skipped]
                      ELSE x : x \in ScanLast(s, j + 1, skipped)} :
                   used \in FlagAt(s, j), obj \in ObjAt(s, j),
                   valid \in ValidateOne}

\* The scan of sub-pool s (lines 678-700) from position j on, with skipped
\* slots reported so far: the position taken (0 for none), the object there
\* and the number of slots reported.
RECURSIVE Scan(_, _, _)
Scan(s, j, skipped) ==
    IF j > sub_pools[s].pool_size
    THEN {[slot |-> 0, object |-> NULL, skipped |-> skipped]}
    ELSE UNION {IF used THEN Scan(s, j + 1, skipped)
                ELSE IF obj = NULL \/ ~valid THEN Scan(s, j + 1, skipped + 1)
                ELSE {[slot |-> j, object |-> obj, skipped |-> skipped]} :
                   used \in FlagAt(s, j), obj \in ObjAt(s, j),
                   valid \in ValidateOne}

\* One pass of the loop over the sub-pools: lock, scan, unlock.
AcquireProbe(t) ==
    LET r == th[t]
        s == (r.start_idx + r.attempt) % pool.sub_pool_count
        sub == sub_pools[s]
        next == IF r.attempt + 1 < pool.sub_pool_count
                THEN [r EXCEPT !.attempt = @ + 1]
                ELSE [r EXCEPT !.attempt = 0, !.pc = "acquire_park"]
    IN
    /\ r.pc = "acquire_probe"
    /\ sub.mutex = "none"
    /\ IF sub.used_count < sub.pool_size
       THEN \E o \in Scan(s, 1, 0) :
              IF o.slot # 0
              THEN /\ sub_pools' = [sub_pools EXCEPT ![s] = [@ EXCEPT
                         !.used = StoreUsed(s, [sub.used EXCEPT ![o.slot] = TRUE]),
                         !.used_count = Inc(@),
                         !.max_used = IF Inc(sub.used_count) > @
                                      THEN Inc(sub.used_count) ELSE @,
                         !.acquire_count = @ + 1]]
                   /\ live' = [live EXCEPT ![o.object] = @ + 1]
                   /\ th' = [th EXCEPT ![t] =
                         [OnReuse(Reset(ReportN(r, "INVALID_OBJECT", o.skipped),
                                        o.object), o.object)
                            EXCEPT !.pc = "used_count", !.attempt = 0,
                                   !.object = o.object, !.total = 0]]
              ELSE /\ th' = [th EXCEPT ![t] =
                         ReportN(next, "INVALID_OBJECT", o.skipped)]
                   /\ UNCHANGED <<sub_pools, live>>
       ELSE /\ th' = [th EXCEPT ![t] = next]
            /\ UNCHANGED <<sub_pools, live>>
    /\ UNCHANGED <<pool, dangling, heap, metadata, served, arrivals,
                   budget, active, pre>>

\* Enqueue as it would be if a request were stored twice.
EnqueueTwice(q, ctx) ==
    Append(Append(q, [callback |-> TRUE, context |-> ctx]),
           [callback |-> TRUE, context |-> ctx])

\* pool->request_queue[pool->queue_size++] = (acquire_request_t){...}
Enqueue(q, ctx) == Append(q, [callback |-> TRUE, context |-> ctx])

\* AcquirePark as it would be if line 708 did not test the callback.
AcquireParkAlways(t) ==
    LET r == th[t] IN
    /\ r.pc = "acquire_park"
    /\ pool' = [pool EXCEPT !.request_queue = Enqueue(@, arrivals + 1)]
    /\ arrivals' = arrivals + 1
    /\ th' = [th EXCEPT ![t] = Return(r, NULL)]
    /\ UNCHANGED <<sub_pools, dangling, heap, metadata, live, served,
                   budget, active, pre>>

\* Lines 707-719 and the final report: every sub-pool was found full.
AcquirePark(t) ==
    LET r == th[t] IN
    /\ r.pc = "acquire_park"
    /\ IF r.arg = 1 /\ Len(pool.request_queue) < pool.queue_capacity
       THEN /\ pool' = [pool EXCEPT
                  !.request_queue = Enqueue(@, arrivals + 1),
                  !.queue_max_size =
                      IF Len(pool.request_queue) + 1 > @
                      THEN Len(pool.request_queue) + 1 ELSE @]
            /\ arrivals' = arrivals + 1
            /\ th' = [th EXCEPT ![t] = Return(r, NULL)]
       ELSE IF r.arg = 1
       THEN /\ th' = [th EXCEPT ![t] = [r EXCEPT !.pc = "acquire_grow_arg"]]
            /\ UNCHANGED <<pool, arrivals>>
       ELSE /\ th' = [th EXCEPT ![t] =
                  Return(report_error(r, "EXHAUSTED"), NULL)]
            /\ UNCHANGED <<pool, arrivals>>
    /\ UNCHANGED <<sub_pools, dangling, heap, metadata, live, served,
                   budget, active, pre>>

\* Line 722: the argument pool->queue_capacity is read before the call.
AcquireGrowArg(t) ==
    LET r == th[t] IN
    /\ r.pc = "acquire_grow_arg"
    /\ th' = [th EXCEPT ![t] = [r EXCEPT !.pc = "acquire_grow_queue",
                                         !.total = pool.queue_capacity]]
    /\ UNCHANGED <<sub_pools, pool, dangling, heap, metadata, live, served,
                   arrivals, budget, active, pre>>

\* new_capacity as it would be if line 633 added nothing.
new_capacity_same(queue_capacity, additional_capacity) == queue_capacity

\* Line 633: size_t new_capacity = pool->queue_capacity + additional_capacity
new_capacity(queue_capacity, additional_capacity) ==
    queue_capacity + additional_capacity

\* pool_grow_queue(pool, additional_capacity) as pool_acquire calls it.
AcquireGrowQueue(t) ==
    LET r == th[t] IN
    /\ r.pc = "acquire_grow_queue"
    /\ \E realloc_ok \in BOOLEAN :
          IF realloc_ok
          THEN /\ pool' = [pool EXCEPT
                     !.queue_capacity = new_capacity(@, r.total),
                     !.queue_grow_count = @ + 1]
               /\ th' = [th EXCEPT ![t] =
                     [r EXCEPT !.pc = "acquire_append", !.total = 0]]
          ELSE /\ th' = [th EXCEPT ![t] =
                     Return(report_error(
                                report_error(r, "ALLOCATION_FAILED"),
                                "QUEUE_FULL"), NULL)]
               /\ UNCHANGED pool
    /\ UNCHANGED <<sub_pools, dangling, heap, metadata, live, served,
                   arrivals, budget, active, pre>>

\* Lines 723-729: the request is stored without a second look at the size.
AcquireAppend(t) ==
    LET r == th[t] IN
    /\ r.pc = "acquire_append"
    /\ pool' = [pool EXCEPT
          !.request_queue = Enqueue(@, arrivals + 1),
          !.queue_max_size = IF Len(pool.request_queue) + 1 > @
                             THEN Len(pool.request_queue) + 1 ELSE @]
    /\ arrivals' = arrivals + 1
    /\ th' = [th EXCEPT ![t] = Return(r, NULL)]
    /\ UNCHANGED <<sub_pools, dangling, heap, metadata, live, served,
                   budget, active, pre>>

\* --------------------------------------------------------- pool_used_count
\* One pass of the loop of pool_used_count, called by pool_acquire and by
\* pool_release after they dropped the sub-pool mutex.
UsedCountStep(t) ==
    LET r == th[t]
        sub == sub_pools[r.attempt]
    IN
    /\ r.pc = "used_count"
    /\ sub.mutex = "none"
    /\ th' = [th EXCEPT ![t] =
          IF r.attempt + 1 < pool.sub_pool_count
          THEN [r EXCEPT !.attempt = @ + 1, !.total = @ + sub.used_count]
          ELSE [r EXCEPT !.attempt = 0, !.total = @ + sub.used_count,
                         !.pc = "max_used_read"]]
    /\ UNCHANGED <<sub_pools, pool, dangling, heap, metadata, live, served,
                   arrivals, budget, active, pre>>

ResultOf(r) == IF r.op = "acquire" THEN r.object ELSE 1

\* if (current_used > pool->max_used) ... : the comparison.
MaxUsedRead(t) ==
    LET r == th[t] IN
    /\ r.pc = "max_used_read"
    /\ th' = [th EXCEPT ![t] =
          IF r.total > pool.max_used
          THEN [r EXCEPT !.pc = "max_used_write"]
          ELSE Return(r, ResultOf(r))]
    /\ UNCHANGED <<sub_pools, pool, dangling, heap, metadata, live, served,
                   arrivals, budget, active, pre>>

\* MaxUsedWrite as it would be if the assignment were missing.
MaxUsedKeep(t) ==
    LET r == th[t] IN
    /\ r.pc = "max_used_write"
    /\ th' = [th EXCEPT ![t] = Return(r, ResultOf(r))]
    /\ UNCHANGED <<sub_pools, pool, dangling, heap, metadata, live, served,
                   arrivals, budget, active, pre>>

\* ... pool->max_used = current_used; : the unlocked assignment.
MaxUsedWrite(t) ==
    LET r == th[t] IN
    /\ r.pc = "max_used_write"
    /\ pool' = [pool EXCEPT !.max_used = r.total]
    /\ th' = [th EXCEPT ![t] = Return(r, ResultOf(r))]
    /\ UNCHANGED <<sub_pools, dangling, heap, metadata, live, served,
                   arrivals, budget, active, pre>>

\* ------------------------------------------------------------ pool_release
ReleaseStart(t) ==
    /\ Begin(t)
    /\ \E object \in Ptr :
          th' = [th EXCEPT ![t] = [IdleThread EXCEPT
                     !.pc = "release_check", !.op = "release",
                     !.arg = object, !.object = object]]
    /\ UNCHANGED <<sub_pools, pool, dangling, heap, metadata,
                   live, served, arrivals, active>>

\* What get_metadata(object) yields: the header of a live object, anything
\* for memory that is not an object of the allocator any more.
MetadataView(object) ==
    IF object \in heap
    THEN {metadata[object]}
    ELSE {[sub_pool |-> s, index |-> j] :
              s \in Shards, j \in 0..MaxSlots}

\* The slots that the search of lines 758-768 compares with the pointer, from
\* slot j of sub-pool s on, when every array is in place: the loops go
\* through the sub-pools and their slots in order and stop at the first slot
\* that holds the pointer.
RECURSIVE SearchedFrom(_, _, _)
SearchedFrom(object, s, j) ==
    IF s = pool.sub_pool_count THEN {}
    ELSE IF j > sub_pools[s].pool_size THEN SearchedFrom(object, s + 1, 1)
    ELSE IF sub_pools[s].objects[j] = object THEN {<<s, j>>}
    ELSE {<<s, j>>} \cup SearchedFrom(object, s, j + 1)

Searched(object) == SearchedFrom(object, 0, 1)

\* Whether the search of lines 758-768 finds the pointer in some slot.
FoundView(object) ==
    LET Slots == {<<s, j>> \in Shards \X (1..MaxSlots) :
                     j <= sub_pools[s].pool_size}
    IN  {TRUE : x \in {x \in Slots : object \in ObjAt(x[1], x[2])}}
          \cup (IF \E x \in Slots : ObjAt(x[1], x[2]) = {object}
                THEN {} ELSE {FALSE})

\* Whether the slot the header names passes the check of line 787.
MatchView(m, object) ==
    IF m.index >= sub_pools[m.sub_pool].pool_size
    THEN {FALSE}
    ELSE {obj = object : obj \in ObjAt(m.sub_pool, m.index + 1)}

\* ReleaseCheck as it would be without the search and without the comparison
\* of the slot: the header alone is trusted.
ReleaseCheckByHeader(t) ==
    LET r == th[t] IN
    /\ r.pc = "release_check"
    /\ \E m \in MetadataView(r.object) :
          IF m.index < sub_pools[m.sub_pool].pool_size
          THEN th' = [th EXCEPT ![t] =
                  [r EXCEPT !.pc = "release_lock", !.sub = m.sub_pool,
                            !.obj_idx = m.index]]
          ELSE th' = [th EXCEPT ![t] =
                  Return(report_error(r, "INVALID_OBJECT"), 0)]
    /\ UNCHANGED <<sub_pools, pool, dangling, heap, metadata, live, served,
                   arrivals, budget, active, pre>>

\* Lines 754-791: the unlocked search and the unlocked check of the header.
ReleaseCheck(t) ==
    LET r == th[t] IN
    /\ r.pc = "release_check"
    /\ \E found \in FoundView(r.object) :
          IF found
          THEN \E m \in MetadataView(r.object) :
                 \E match \in MatchView(m, r.object) :
                    IF match
                    THEN th' = [th EXCEPT ![t] =
                            [r EXCEPT !.pc = "release_lock",
                                      !.sub = m.sub_pool,
                                      !.obj_idx = m.index]]
                    ELSE th' = [th EXCEPT ![t] =
                            Return(report_error(r, "INVALID_OBJECT"), 0)]
          ELSE th' = [th EXCEPT ![t] =
                  Return(report_error(r, "INVALID_OBJECT"), 0)]
    /\ UNCHANGED <<sub_pools, pool, dangling, heap, metadata, live, served,
                   arrivals, budget, active, pre>>

\* Dequeue as it would be if the newest request were taken.
DequeueNewest(q) == [req |-> q[Len(q)], rest |-> SubSeq(q, 1, Len(q) - 1)]

\* Dequeue as it would be if lines 819-823 left the oldest request in place.
DequeuePeek(q) == [req |-> Head(q), rest |-> q]

\* Lines 819-823: the oldest request leaves the queue, the others move up.
Dequeue(q) == [req |-> Head(q), rest |-> Tail(q)]

\* UsedFlagView as it would be if line 805 took every slot for a used one.
FlagAlwaysSet(s, obj_idx) == {TRUE}

\* What sub->used[obj_idx] yields under the lock: the flag, or anything when
\* the index is no longer inside the array.
UsedFlagView(s, obj_idx) ==
    IF obj_idx < sub_pools[s].pool_size
    THEN FlagAt(s, obj_idx + 1)
    ELSE BOOLEAN

\* SetFlag as it would be if the store to sub->used were missing.
SetNoFlag(uv, obj_idx, b) == uv

\* sub->used[obj_idx] = b; a store outside the array is lost.
SetFlag(uv, obj_idx, b) ==
    IF obj_idx + 1 <= Len(uv) THEN [uv EXCEPT ![obj_idx + 1] = b] ELSE uv

\* Lines 793-824 and 845-854: lock the sub-pool, validate, clear the flag and
\* pop the oldest parked request.  With a popped request the mutex stays
\* held for the hand-off.
ReleaseLock(t) ==
    LET r == th[t]
        s == r.sub
        sub == sub_pools[s]
        q == pool.request_queue
    IN
    /\ r.pc = "release_lock"
    /\ sub.mutex = "none"
    /\ \E valid \in ValidateOne, flag \in UsedFlagView(s, r.obj_idx) :
          LET rv == [r EXCEPT !.valid = Append(@, valid)]
              rs == Reset(rv, r.object)
          IN
          IF ~valid
          THEN /\ th' = [th EXCEPT ![t] =
                     Return(report_error(rv, "INVALID_OBJECT"), 0)]
               /\ UNCHANGED <<sub_pools, pool, live>>
          ELSE IF ~flag
          THEN /\ th' = [th EXCEPT ![t] =
                     Return(report_error(rv, "INVALID_OBJECT"), 0)]
               /\ UNCHANGED <<sub_pools, pool, live>>
          ELSE /\ live' = [live EXCEPT ![r.object] =
                              IF @ > 0 THEN @ - 1 ELSE 0]
               /\ IF Len(q) > 0
                  THEN /\ sub_pools' = [sub_pools EXCEPT ![s] = [@ EXCEPT
                             !.used = StoreUsed(s, SetFlag(sub.used, r.obj_idx, FALSE)),
                             !.used_count = Dec(@),
                             !.release_count = @ + 1,
                             !.mutex = t]]
                       /\ pool' = [pool EXCEPT !.request_queue = Dequeue(q).rest]
                       /\ th' = [th EXCEPT ![t] =
                             [rs EXCEPT !.pc = "release_handoff",
                                        !.req = Dequeue(q).req]]
                  ELSE /\ sub_pools' = [sub_pools EXCEPT ![s] = [@ EXCEPT
                             !.used = StoreUsed(s, SetFlag(sub.used, r.obj_idx, FALSE)),
                             !.used_count = Dec(@),
                             !.release_count = @ + 1]]
                       /\ th' = [th EXCEPT ![t] = Return(rs, 1)]
                       /\ UNCHANGED pool
    /\ UNCHANGED <<dangling, heap, metadata, served, arrivals,
                   budget, active, pre>>

\* Lines 825-847: the popped request is served if the object validates.
ReleaseHandoff(t) ==
    LET r == th[t]
        s == r.sub
    IN
    /\ r.pc = "release_handoff"
    /\ sub_pools[s].mutex = t
    /\ \E valid \in ValidateOne :
          LET rv == [r EXCEPT !.valid = Append(@, valid)] IN
          IF r.req.callback /\ valid
          THEN /\ sub_pools' = [sub_pools EXCEPT ![s] = [@ EXCEPT
                     !.used = StoreUsed(s, SetFlag(sub_pools[s].used, r.obj_idx, TRUE)),
                     !.used_count = Inc(@),
                     !.acquire_count = @ + 1,
                     !.mutex = "none"]]
               /\ live' = [live EXCEPT ![r.object] = @ + 1]
               /\ served' = Append(served, r.req.context)
               /\ th' = [th EXCEPT ![t] =
                     [Callback(OnReuse(rv, r.object), r.object)
                        EXCEPT !.pc = "used_count", !.attempt = 0,
                               !.total = 0, !.req = NoReq,
                               !.called = Append(@, <<r.req.context, r.object>>)]]
          ELSE /\ sub_pools' = [sub_pools EXCEPT ![s].mutex = "none"]
               /\ th' = [th EXCEPT ![t] = Return(rv, 1)]
               /\ UNCHANGED <<live, served>>
    /\ UNCHANGED <<pool, dangling, heap, metadata, arrivals,
                   budget, active, pre>>

\* --------------------------------------------------------------- pool_grow
\* The k addresses allocator.alloc hands out one after the other: blocks
\* that are not in use, here the lowest ones.
RECURSIVE Fresh(_, _)
Fresh(free, k) ==
    IF k = 0 \/ free = {} THEN <<>>
    ELSE <<Min(free)>> \o Fresh(free \ {Min(free)}, k - 1)

\* The outcomes of the two realloc calls of pool_grow: both succeed, or the
\* call fails.  lost names an array whose old block realloc moved and freed
\* while the other realloc failed: sub->objects or sub->used still points to
\* the freed block.
GrowRealloc ==
    {[ok |-> TRUE, lost |-> {}]}
        \cup {[ok |-> FALSE, lost |-> d] : d \in {{}, {"objects"}, {"used"}}}

\* The outcomes of the two realloc calls of pool_shrink.  On a failure the
\* block that was reallocated is freed (lines 596-597).  realloc(p, 0) may
\* free p and return NULL: both arrays are lost then.
ShrinkRealloc(new_size) ==
    {[ok |-> TRUE, lost |-> {}]}
        \cup {[ok |-> FALSE, lost |-> d] :
                 d \in IF new_size = 0
                       THEN {{}, {"objects", "used"}}
                       ELSE {{}, {"objects"}, {"used"}}}

\* The arrays of a sub-pool as they are kept once the arrays in lost
\* dangle: they are read through ObjView and UsedView from then on.
Keep(lost, ov, uv) ==
    [objects |-> ov,
     used    |-> IF "used" \in lost THEN Fill(Len(uv), FALSE) ELSE uv]

\* Share as it would be if the remainder went to the last sub-pools.
ShareLast(size, i) ==
    (size \div pool.sub_pool_count)
        + (IF i >= pool.sub_pool_count - (size % pool.sub_pool_count)
           THEN 1 ELSE 0)

\* The part of size that falls to sub-pool i (lines 487-491 and 558-562).
Share(size, i) ==
    (size \div pool.sub_pool_count)
        + (IF i < size % pool.sub_pool_count THEN 1 ELSE 0)

\* The loop index after sub-pool i: the call goes on or reaches its end.
Advance(r, finish) ==
    IF r.attempt + 1 < pool.sub_pool_count
    THEN [r EXCEPT !.attempt = @ + 1]
    ELSE [r EXCEPT !.attempt = 0, !.pc = finish]

\* Lines 481-488.  Calls that would take the pool beyond MaxSlots slots are
\* not made.
GrowStart(t) ==
    /\ Begin(t)
    /\ \E additional_size \in 0..MaxResize :
          /\ pool_capacity + additional_size <= MaxSlots
          /\ LET r == [IdleThread EXCEPT !.pc = "grow_step", !.op = "grow",
                                      !.arg = additional_size]
             IN  th' = [th EXCEPT ![t] =
                     IF additional_size = 0
                     THEN Return(report_error(r, "INVALID_SIZE"), 0)
                     ELSE r]
    /\ UNCHANGED <<sub_pools, pool, dangling, heap, metadata,
                   live, served, arrivals, active>>

\* One pass of the loop of pool_grow (lines 489-535).
GrowStep(t) ==
    LET r == th[t]
        i == r.attempt
        sub == sub_pools[i]
        add_size == Share(r.arg, i)
        free == Addr \ heap
    IN
    /\ r.pc = "grow_step"
    /\ IF add_size = 0
       THEN /\ th' = [th EXCEPT ![t] = Advance(r, "grow_finish")]
            /\ UNCHANGED <<sub_pools, dangling, heap, metadata>>
       ELSE
         /\ sub.mutex = "none"
         /\ \E re \in GrowRealloc :
              IF ~re.ok
              THEN LET lost == dangling[i] \cup re.lost
                       kept == Keep(lost, sub.objects, sub.used)
                   IN
                   /\ dangling' = [dangling EXCEPT ![i] = lost]
                   /\ sub_pools' = [sub_pools EXCEPT ![i] = [@ EXCEPT
                          !.objects = kept.objects, !.used = kept.used]]
                   /\ th' = [th EXCEPT ![t] =
                          Return(report_error(r, "ALLOCATION_FAILED"), 0)]
                   /\ UNCHANGED <<heap, metadata>>
              ELSE \E k \in 0..Min({add_size, Cardinality(free)}) :
                   LET new == Fresh(free, k) IN
                   /\ UNCHANGED dangling
                   /\ heap' = heap \cup {new[j] : j \in 1..k}
                   /\ metadata' = [a \in Addr |->
                          IF \E j \in 1..k : new[j] = a
                          THEN [sub_pool |-> i,
                                index |-> sub.pool_size - 1
                                    + (CHOOSE j \in 1..k : new[j] = a)]
                          ELSE metadata[a]]
                   /\ IF k = add_size
                      THEN /\ sub_pools' = [sub_pools EXCEPT ![i] = [@ EXCEPT
                                 !.objects = @ \o new,
                                 !.used = @ \o Fill(add_size, FALSE),
                                 !.pool_size = @ + add_size]]
                           /\ th' = [th EXCEPT ![t] = Advance(r, "grow_finish")]
                      ELSE /\ UNCHANGED sub_pools
                           /\ th' = [th EXCEPT ![t] =
                                 Return(report_error(r, "ALLOCATION_FAILED"), 0)]
    /\ UNCHANGED <<pool, live, served, arrivals, budget, active, pre>>

\* Lines 537-539: the counters of the pool, updated outside every mutex.
GrowFinish(t) ==
    LET r == th[t] IN
    /\ r.pc = "grow_finish"
    /\ pool' = [pool EXCEPT !.total_objects_allocated = @ + r.arg,
                            !.grow_count = @ + 1]
    /\ th' = [th EXCEPT ![t] = Return(r, 1)]
    /\ UNCHANGED <<sub_pools, dangling, heap, metadata, live, served,
                   arrivals, budget, active, pre>>

\* ------------------------------------------------------------- pool_shrink
ShrinkStart(t) ==
    /\ Begin(t)
    /\ \E reduce_size \in 0..MaxResize :
          LET r == [IdleThread EXCEPT !.pc = "shrink_step", !.op = "shrink",
                                      !.arg = reduce_size]
          IN  th' = [th EXCEPT ![t] =
                  IF reduce_size = 0 \/ reduce_size > pool_capacity
                  THEN Return(report_error(r, "INVALID_SIZE"), 0)
                  ELSE r]
    /\ UNCHANGED <<sub_pools, pool, dangling, heap, metadata,
                   live, served, arrivals, active>>

\* Lines 569-576: the free slots at the high end of sub-pool i, counted
\* from position j down and up to red_size, with n counted so far.
RECURSIVE UnusedTail(_, _, _, _)
UnusedTail(i, red_size, j, n) ==
    IF j > 0 /\ n < red_size
    THEN UNION {IF used THEN {n} ELSE UnusedTail(i, red_size, j - 1, n + 1) :
                   used \in FlagAt(i, j)}
    ELSE {n}

\* The blocks the loop of lines 585-591 can hand to allocator.free.
DestroyView(i, new_size) ==
    LET tail == (new_size + 1)..sub_pools[i].pool_size
    IN  {{f[j] : j \in tail} \ {NULL} :
            f \in {g \in [tail -> UNION {ObjAt(i, j) : j \in tail}] :
                       \A j \in tail : g[j] \in ObjAt(i, j)}}

\* One pass of the loop of pool_shrink (lines 560-612).
ShrinkStep(t) ==
    LET r == th[t]
        i == r.attempt
        sub == sub_pools[i]
        red_size == Share(r.arg, i)
    IN
    /\ r.pc = "shrink_step"
    /\ IF red_size = 0
       THEN /\ th' = [th EXCEPT ![t] = Advance(r, "shrink_finish")]
            /\ UNCHANGED <<sub_pools, dangling, heap>>
       ELSE
         /\ sub.mutex = "none"
         /\ \E unused_count \in UnusedTail(i, red_size, sub.pool_size, 0) :
              IF unused_count < red_size
              THEN /\ th' = [th EXCEPT ![t] =
                          Return(report_error(r, "INSUFFICIENT_UNUSED"), 0)]
                   /\ UNCHANGED <<sub_pools, dangling, heap>>
              ELSE
                LET new_size == sub.pool_size - red_size
                    cleared == [j \in 1..sub.pool_size |->
                                   IF j > new_size THEN NULL ELSE sub.objects[j]]
                IN
                \E destroyed \in DestroyView(i, new_size),
                   re \in ShrinkRealloc(new_size) :
                /\ heap' = heap \ destroyed
                /\
                     IF re.ok
                     THEN /\ UNCHANGED dangling
                          /\ sub_pools' = [sub_pools EXCEPT ![i] = [@ EXCEPT
                                 !.objects = SubSeq(cleared, 1, new_size),
                                 !.used = SubSeq(@, 1, new_size),
                                 !.pool_size = new_size,
                                 !.max_used = IF @ > new_size
                                              THEN new_size ELSE @]]
                          /\ th' = [th EXCEPT ![t] = Advance(r, "shrink_finish")]
                     ELSE LET lost == dangling[i] \cup re.lost
                              kept == Keep(lost, cleared, sub.used)
                          IN
                          /\ dangling' = [dangling EXCEPT ![i] = lost]
                          /\ sub_pools' = [sub_pools EXCEPT ![i] = [@ EXCEPT
                                 !.objects = kept.objects, !.used = kept.used]]
                          /\ th' = [th EXCEPT ![t] =
                                 Return(report_error(r, "ALLOCATION_FAILED"), 0)]
    /\ UNCHANGED <<pool, metadata, live, served, arrivals, budget, active, pre>>

\* Line 614: the counter of the pool, updated outside every mutex.
ShrinkFinish(t) ==
    LET r == th[t] IN
    /\ r.pc = "shrink_finish"
    /\ pool' = [pool EXCEPT !.shrink_count = @ + 1]
    /\ th' = [th EXCEPT ![t] = Return(r, 1)]
    /\ UNCHANGED <<sub_pools, dangling, heap, metadata, live, served,
                   arrivals, budget, active, pre>>

\* ------------------------------------------------------------ pool_destroy
\* The blocks the loops of lines 981-987 can hand to allocator.on_destroy and
\* allocator.free, over the sub-pools from i on.
RECURSIVE DestroyAll(_)
DestroyAll(i) ==
    IF i = pool.sub_pool_count THEN {{}}
    ELSE {d \cup rest : d \in DestroyView(i, 0), rest \in DestroyAll(i + 1)}

\* pool_destroy(pool), called when no other call is under way: every object
\* found in a slot below pool_size is handed to on_destroy and freed.  No
\* call follows, so the call is not one of the budget.
pool_destroy(t) ==
    /\ t \in active
    /\ \A u \in Threads : th[u].pc = "idle"
    /\ pre' = IF Cardinality(active) = 1 THEN Snapshot(t) ELSE pre
    /\ UNCHANGED budget
    /\ \E destroyed \in DestroyAll(0) :
          heap' = heap \ destroyed
    /\ active' = {}
    /\ th' = [th EXCEPT ![t] = [IdleThread EXCEPT !.op = "destroy"]]
    /\ UNCHANGED <<sub_pools, pool, dangling, metadata, live, served,
                   arrivals>>

\* ------------------------------------------------------------ the mutexes
\* The calls once more, with every uv_mutex_lock and every uv_mutex_unlock a
\* step of its own.  Only the mutexes are followed here: which way a test of
\* the pool's data goes decides which mutex a call takes next, and every way
\* is taken.  sub_pools[s].mutex and pool.queue_mutex name the holder.
InitLocks ==
    /\ Created
    /\ active = Threads
    /\ budget = MaxOpsLocks

\* The places at which a call is about to lock a sub-pool mutex (lines 494,
\* 565, 673, 793, 871 and 919) and the queue mutex (lines 632, 709, 723, 817).
SubLockPcs == {"acq_lock", "cnt_lock", "rel_lock", "rsz_lock"}

QueueLockPcs == {"acq_qlock", "gq_lock", "acq_alock", "rel_qlock"}

Locked(pc) ==
    CASE pc = "acq_lock"  -> "acq_locked"
      [] pc = "cnt_lock"  -> "cnt_locked"
      [] pc = "rel_lock"  -> "rel_locked"
      [] pc = "rsz_lock"  -> "rsz_locked"
      [] pc = "acq_qlock" -> "acq_qlocked"
      [] pc = "gq_lock"   -> "gq_locked"
      [] pc = "acq_alock" -> "acq_alocked"
      [] pc = "rel_qlock" -> "rel_qlocked"

\* The sub-pool whose mutex the call of r is about to lock.
SubWanted(r) ==
    CASE r.pc = "acq_lock" -> (r.start_idx + r.attempt) % pool.sub_pool_count
      [] r.pc = "rel_lock" -> r.sub
      [] OTHER             -> r.attempt

\* UnlockQueue as it would be if uv_mutex_unlock(&pool->queue_mutex) were
\* missing.
KeepQueue(p) == p

UnlockQueue(p) == [p EXCEPT !.queue_mutex = "none"]

UnlockSub(sp, s) == [sp EXCEPT ![s].mutex = "none"]

\* A call begins.  Calls with arguments that are refused before any mutex is
\* taken are left out.
LockStart(t) ==
    /\ Begin(t)
    /\ \E op \in {"acquire", "release", "grow", "shrink", "grow_queue",
                  "used_count", "stats"} :
          LET r == [IdleThread EXCEPT !.op = op] IN
          CASE op = "acquire" ->
                 \E callback \in BOOLEAN, start_idx \in Shards :
                    th' = [th EXCEPT ![t] = [r EXCEPT
                              !.pc = "acq_lock", !.start_idx = start_idx,
                              !.arg = IF callback THEN 1 ELSE 0]]
            [] op = "release" ->
                 th' = [th EXCEPT ![t] = [r EXCEPT !.pc = "rel_check"]]
            [] op \in {"grow", "shrink"} ->
                 \E size \in 1..MaxResize :
                    th' = [th EXCEPT ![t] = [r EXCEPT
                              !.pc = "rsz_lock", !.arg = size]]
            [] op = "grow_queue" ->
                 th' = [th EXCEPT ![t] = [r EXCEPT !.pc = "gq_lock"]]
            [] OTHER ->
                 th' = [th EXCEPT ![t] = [r EXCEPT !.pc = "cnt_lock"]]
    /\ UNCHANGED <<sub_pools, pool, dangling, heap, metadata,
                   live, served, arrivals, active>>

\* uv_mutex_lock(&sub->mutex): the caller waits until the mutex is free.
LockSub(t) ==
    LET r == th[t]
        s == SubWanted(r)
    IN
    /\ r.pc \in SubLockPcs
    /\ r.pc = "rsz_lock" => Share(r.arg, r.attempt) > 0
    /\ sub_pools[s].mutex = "none"
    /\ sub_pools' = [sub_pools EXCEPT ![s].mutex = t]
    /\ th' = [th EXCEPT ![t] = [r EXCEPT !.pc = Locked(r.pc), !.sub = s]]
    /\ UNCHANGED <<pool, dangling, heap, metadata, live, served, arrivals,
                   budget, active, pre>>

\* uv_mutex_lock(&pool->queue_mutex).
LockQueue(t) ==
    LET r == th[t] IN
    /\ r.pc \in QueueLockPcs
    /\ pool.queue_mutex = "none"
    /\ pool' = [pool EXCEPT !.queue_mutex = t]
    /\ th' = [th EXCEPT ![t] = [r EXCEPT !.pc = Locked(r.pc)]]
    /\ UNCHANGED <<sub_pools, dangling, heap, metadata, live, served,
                   arrivals, budget, active, pre>>

\* pool_acquire, lines 677-704: a slot is taken and the mutex released at
\* line 691, pool_used_count follows; or the mutex is released at line 703
\* and the loop goes on.
LockAcquireScan(t) ==
    LET r == th[t] IN
    /\ r.pc = "acq_locked"
    /\ sub_pools' = UnlockSub(sub_pools, r.sub)
    /\ \E found \in BOOLEAN :
          th' = [th EXCEPT ![t] =
              IF found THEN [r EXCEPT !.pc = "cnt_lock", !.attempt = 0]
              ELSE IF r.attempt + 1 < pool.sub_pool_count
              THEN [r EXCEPT !.pc = "acq_lock", !.attempt = @ + 1]
              ELSE [r EXCEPT !.pc = "acq_test", !.attempt = 0]]
    /\ UNCHANGED <<pool, dangling, heap, metadata, live, served, arrivals,
                   budget, active, pre>>

\* Lines 708 and 722: the unlocked test of the queue, then the queue mutex
\* for parking or pool_grow_queue; without a callback the call ends.
LockAcquireTest(t) ==
    LET r == th[t] IN
    /\ r.pc = "acq_test"
    /\ \E room \in BOOLEAN :
          th' = [th EXCEPT ![t] =
              IF r.arg = 0 THEN IdleThread
              ELSE IF room THEN [r EXCEPT !.pc = "acq_qlock"]
              ELSE [r EXCEPT !.pc = "gq_lock"]]
    /\ UNCHANGED <<sub_pools, pool, dangling, heap, metadata, live, served,
                   arrivals, budget, active, pre>>

\* Lines 710-718: parked and unlocked at line 715, or unlocked at line 718
\* and on to pool_grow_queue.
LockAcquirePark(t) ==
    LET r == th[t] IN
    /\ r.pc = "acq_qlocked"
    /\ pool' = UnlockQueue(pool)
    /\ \E room \in BOOLEAN :
          th' = [th EXCEPT ![t] =
              IF room THEN IdleThread ELSE [r EXCEPT !.pc = "gq_lock"]]
    /\ UNCHANGED <<sub_pools, dangling, heap, metadata, live, served,
                   arrivals, budget, active, pre>>

\* pool_grow_queue, lines 633-646, called by the host or from line 722.
LockGrowQueue(t) ==
    LET r == th[t] IN
    /\ r.pc = "gq_locked"
    /\ pool' = UnlockQueue(pool)
    /\ \E realloc_ok \in BOOLEAN :
          th' = [th EXCEPT ![t] =
              IF r.op = "acquire" /\ realloc_ok
              THEN [r EXCEPT !.pc = "acq_alock"]
              ELSE IdleThread]
    /\ UNCHANGED <<sub_pools, dangling, heap, metadata, live, served,
                   arrivals, budget, active, pre>>

\* Lines 724-729.
LockAcquireAppend(t) ==
    LET r == th[t] IN
    /\ r.pc = "acq_alocked"
    /\ pool' = UnlockQueue(pool)
    /\ th' = [th EXCEPT ![t] = IdleThread]
    /\ UNCHANGED <<sub_pools, dangling, heap, metadata, live, served,
                   arrivals, budget, active, pre>>

\* One pass of the loop of pool_used_count (lines 869-877) or of pool_stats
\* (lines 917-928).
LockCount(t) ==
    LET r == th[t] IN
    /\ r.pc = "cnt_locked"
    /\ sub_pools' = UnlockSub(sub_pools, r.sub)
    /\ th' = [th EXCEPT ![t] =
          IF r.attempt + 1 < pool.sub_pool_count
          THEN [r EXCEPT !.pc = "cnt_lock", !.attempt = @ + 1]
          ELSE IdleThread]
    /\ UNCHANGED <<pool, dangling, heap, metadata, live, served, arrivals,
                   budget, active, pre>>

\* pool_release, lines 754-791: the checks made before any mutex is taken.
LockReleaseCheck(t) ==
    LET r == th[t] IN
    /\ r.pc = "rel_check"
    /\ \E ok \in BOOLEAN, s \in Shards :
          th' = [th EXCEPT ![t] =
              IF ok THEN [r EXCEPT !.pc = "rel_lock", !.sub = s]
              ELSE IdleThread]
    /\ UNCHANGED <<sub_pools, pool, dangling, heap, metadata, live, served,
                   arrivals, budget, active, pre>>

\* Lines 797-816 and 845-854: the return is refused or finds the queue
\* empty, and the mutex is released; or the queue mutex is wanted next, with
\* the sub-pool mutex held.
LockReleaseHeld(t) ==
    LET r == th[t] IN
    /\ r.pc = "rel_locked"
    /\ \E queued \in BOOLEAN :
          IF queued
          THEN /\ th' = [th EXCEPT ![t] = [r EXCEPT !.pc = "rel_qlock"]]
               /\ UNCHANGED sub_pools
          ELSE /\ th' = [th EXCEPT ![t] = IdleThread]
               /\ sub_pools' = UnlockSub(sub_pools, r.sub)
    /\ UNCHANGED <<pool, dangling, heap, metadata, live, served, arrivals,
                   budget, active, pre>>

\* Lines 818-824 and 841: the queue mutex is released before the hand-off.
LockReleasePop(t) ==
    LET r == th[t] IN
    /\ r.pc = "rel_qlocked"
    /\ pool' = UnlockQueue(pool)
    /\ th' = [th EXCEPT ![t] = [r EXCEPT !.pc = "rel_handoff"]]
    /\ UNCHANGED <<sub_pools, dangling, heap, metadata, live, served,
                   arrivals, budget, active, pre>>

\* Lines 825-847: the callback, which makes no call of the pool, then the
\* sub-pool mutex is released and pool_used_count follows (line 834); or
\* nothing is handed over and the mutex is released at line 845.
LockReleaseHandoff(t) ==
    LET r == th[t] IN
    /\ r.pc = "rel_handoff"
    /\ sub_pools' = UnlockSub(sub_pools, r.sub)
    /\ \E called \in BOOLEAN :
          th' = [th EXCEPT ![t] =
              IF called THEN [r EXCEPT !.pc = "cnt_lock", !.attempt = 0]
              ELSE IdleThread]
    /\ UNCHANGED <<pool, dangling, heap, metadata, live, served, arrivals,
                   budget, active, pre>>

\* pool_grow line 492 and pool_shrink line 563: a sub-pool with no share is
\* passed over.
LockResizeSkip(t) ==
    LET r == th[t] IN
    /\ r.pc = "rsz_lock"
    /\ Share(r.arg, r.attempt) = 0
    /\ th' = [th EXCEPT ![t] =
          IF r.attempt + 1 < pool.sub_pool_count
          THEN [r EXCEPT !.attempt = @ + 1]
          ELSE IdleThread]
    /\ UNCHANGED <<sub_pools, pool, dangling, heap, metadata, live, served,
                   arrivals, budget, active, pre>>

\* One pass of the loop of pool_grow (lines 494-534) or of pool_shrink
\* (lines 565-611): the mutex is released on every way out.
LockResize(t) ==
    LET r == th[t] IN
    /\ r.pc = "rsz_locked"
    /\ sub_pools' = UnlockSub(sub_pools, r.sub)
    /\ \E ok \in BOOLEAN :
          th' = [th EXCEPT ![t] =
              IF ok /\ r.attempt + 1 < pool.sub_pool_count
              THEN [r EXCEPT !.pc = "rsz_lock", !.attempt = @ + 1]
              ELSE IdleThread]
    /\ UNCHANGED <<pool, dangling, heap, metadata, live, served, arrivals,
                   budget, active, pre>>

\* The steps of a thread when only the mutexes are followed.
LockStep(t) ==
    \/ LockStart(t)
    \/ LockSub(t)
    \/ LockQueue(t)
    \/ LockAcquireScan(t)
    \/ LockAcquireTest(t)
    \/ LockAcquirePark(t)
    \/ LockGrowQueue(t)
    \/ LockAcquireAppend(t)
    \/ LockCount(t)
    \/ LockReleaseCheck(t)
    \/ LockReleaseHeld(t)
    \/ LockReleasePop(t)
    \/ LockReleaseHandoff(t)
    \/ LockResizeSkip(t)
    \/ LockResize(t)

NextLocks == \E t \in Threads : LockStep(t)

\* Threads that call lease, return, grow, shrink, grow-queue, used-count and
\* stats, seen through the mutexes they take.
SpecLocks == InitLocks /\ [][NextLocks]_vars

\* ------------------------------------------- the backpressure scenario
\* main of src/tests/common.c: a pool of one sub-pool with fewer objects than
\* there are threads, the default queue, and every thread at the start of
\* acquire_thread.
InitBackpressure ==
    /\ \E pool_size \in 1..Min({MaxPoolSize, Cardinality(Threads) - 1}) :
          pool_create(pool_size, 1, "default")
    /\ th = [t \in Threads |-> [IdleThread EXCEPT !.phase = "start"]]
    /\ live = [p \in Ptr |-> 0]
    /\ served = <<>>
    /\ arrivals = 0
    /\ pre = NoSnapshot
    /\ active = Threads
    /\ budget = 0

\* pool_acquire(ptd->pool, concurrent_acquire_callback, ptd).
BackpressureLease(t) ==
    LET r == th[t] IN
    /\ r.pc = "idle"
    /\ r.phase = "start"
    /\ \E start_idx \in Shards :
          th' = [th EXCEPT ![t] = [r EXCEPT
                     !.pc = "acquire_probe", !.op = "acquire", !.arg = 1,
                     !.start_idx = start_idx]]
    /\ UNCHANGED <<sub_pools, pool, dangling, heap, metadata, live, served,
                   arrivals, budget, active, pre>>

\* The callback of the thread's request was called: the wait for
\* object_received ends and the thread holds the object handed over.
BackpressureWake(t) ==
    LET r == th[t] IN
    /\ r.pc = "idle"
    /\ r.phase = "waiting"
    /\ \E i \in 1..Len(served) : served[i] = r.ctx
    /\ \E p \in Addr :
          /\ live[p] > 0
          /\ \A u \in Threads \ {t} :
                ~(th[u].phase \in {"direct", "callback"}
                  /\ th[u].pc \in {"idle", "release_check", "release_lock"}
                  /\ th[u].object = p)
          /\ th' = [th EXCEPT ![t] = [r EXCEPT !.phase = "callback",
                                               !.object = p]]
    /\ UNCHANGED <<sub_pools, pool, dangling, heap, metadata, live, served,
                   arrivals, budget, active, pre>>

\* pool_release(ptd->pool, obj).
BackpressureReturn(t) ==
    LET r == th[t] IN
    /\ r.pc = "idle"
    /\ r.phase \in {"direct", "callback"}
    /\ th' = [th EXCEPT ![t] = [r EXCEPT
                 !.pc = "release_check", !.op = "release",
                 !.arg = r.object]]
    /\ UNCHANGED <<sub_pools, pool, dangling, heap, metadata, live, served,
                   arrivals, budget, active, pre>>

BackpressureStep(t) ==
    \/ BackpressureLease(t)
    \/ BackpressureWake(t)
    \/ BackpressureReturn(t)
    \/ AcquireProbe(t)
    \/ AcquirePark(t)
    \/ UsedCountStep(t)
    \/ MaxUsedRead(t)
    \/ MaxUsedWrite(t)
    \/ ReleaseCheck(t)
    \/ ReleaseLock(t)
    \/ ReleaseHandoff(t)

NextBackpressure == \E t \in Threads : BackpressureStep(t)

\* The threads of the scenario, in any interleaving.
SpecBackpressure == InitBackpressure /\ [][NextBackpressure]_vars

\* The same with every thread scheduled again and again: a thread that can
\* take a step takes one.
SpecBackpressureFair ==
    /\ SpecBackpressure
    /\ \A t \in Threads : WF_vars(BackpressureStep(t))

\* ------------------------------------------------ the thread safety test
\* main of src/tests/test_thread_safety.c: a pool with the test's allocator,
\* whose validate accepts the objects, and every thread at the start of
\* thread_test.
InitThreadTest ==
    /\ \E pool_size \in 1..MaxPoolSize, sub_pool_count \in 1..MaxShards :
          pool_create(pool_size, sub_pool_count, "default")
    /\ th = [t \in Threads |-> [IdleThread EXCEPT !.phase = "acquiring"]]
    /\ live = [p \in Ptr |-> 0]
    /\ served = <<>>
    /\ arrivals = 0
    /\ pre = NoSnapshot
    /\ active = Threads
    /\ budget = 0

\* pool_acquire(data->pool, NULL, NULL).
ThreadTestAcquire(t) ==
    LET r == th[t] IN
    /\ r.pc = "idle"
    /\ r.phase = "acquiring"
    /\ \E start_idx \in Shards :
          th' = [th EXCEPT ![t] = [r EXCEPT
                     !.pc = "acquire_probe", !.op = "acquire", !.arg = 0,
                     !.start_idx = start_idx]]
    /\ UNCHANGED <<sub_pools, pool, dangling, heap, metadata, live, served,
                   arrivals, budget, active, pre>>

\* pool_release(data->pool, data->objects[i]).
ThreadTestRelease(t) ==
    LET r == th[t] IN
    /\ r.pc = "idle"
    /\ r.phase = "releasing"
    /\ th' = [th EXCEPT ![t] = [r EXCEPT
                 !.pc = "release_check", !.op = "release",
                 !.arg = r.objects[r.i + 1], !.object = r.objects[r.i + 1]]]
    /\ UNCHANGED <<sub_pools, pool, dangling, heap, metadata, live, served,
                   arrivals, budget, active, pre>>

ThreadTestStep(t) ==
    \/ ThreadTestAcquire(t)
    \/ ThreadTestRelease(t)
    \/ AcquireProbe(t)
    \/ AcquirePark(t)
    \/ UsedCountStep(t)
    \/ MaxUsedRead(t)
    \/ MaxUsedWrite(t)
    \/ ReleaseCheck(t)
    \/ ReleaseLock(t)

NextThreadTest == \E t \in Threads : ThreadTestStep(t)

\* The threads of the thread safety test, in any interleaving.
SpecThreadTest == InitThreadTest /\ [][NextThreadTest]_vars

\* --------------------------------------------- the tutorial's backpressure
\* Step 3 of src/TUTORIAL.md on a pool with at least one object per sub-pool.
InitTutorial ==
    /\ \E pool_size \in 1..MaxPoolSize, sub_pool_count \in 1..MaxShards :
          /\ pool_size >= sub_pool_count
          /\ pool_create(pool_size, sub_pool_count, "default")
    /\ \E ctx \in {0, 1} :
          th = [t \in Threads |->
                   IF t = "t1"
                   THEN [IdleThread EXCEPT !.phase = "exhausting", !.ctx = ctx]
                   ELSE IdleThread]
    /\ live = [p \in Ptr |-> 0]
    /\ served = <<>>
    /\ arrivals = 0
    /\ pre = NoSnapshot
    /\ active = {"t1"}
    /\ budget = 0

\* The locals of the call that on_acquire makes.  The call runs on the
\* thread of its caller; it has a record of its own because the caller's
\* call is still under way.
Inner == "t2"

\* objects[i] = pool_acquire(pool, NULL, NULL) and
\* pool_acquire(pool, on_acquire, pool).
TutorialAcquire(t) ==
    LET r == th[t] IN
    /\ r.pc = "idle"
    /\ r.phase \in {"exhausting", "parking"}
    /\ \E start_idx \in Shards :
          th' = [th EXCEPT ![t] = [r EXCEPT
                     !.pc = "acquire_probe", !.op = "acquire",
                     !.arg = IF r.phase = "parking" THEN 1 ELSE 0,
                     !.start_idx = start_idx]]
    /\ UNCHANGED <<sub_pools, pool, dangling, heap, metadata, live, served,
                   arrivals, budget, active, pre>>

\* pool_release(pool, objects[0]) and pool_release(pool, objects[i]).
TutorialRelease(t) ==
    LET r == th[t]
        object == r.objects[r.i + 1]
    IN
    /\ r.pc = "idle"
    /\ r.phase \in {"triggering", "cleanup"}
    /\ th' = [th EXCEPT ![t] = [r EXCEPT
                 !.pc = "release_check", !.op = "release",
                 !.arg = object, !.object = object]]
    /\ UNCHANGED <<sub_pools, pool, dangling, heap, metadata, live, served,
                   arrivals, budget, active, pre>>

\* pool_release, lines 825-830: the popped request is served and its
\* callback entered, with the sub-pool mutex held.
TutorialHandoff(t) ==
    LET r == th[t]
        s == r.sub
    IN
    /\ r.pc = "release_handoff"
    /\ sub_pools[s].mutex = t
    /\ \E valid \in ValidateOne :
          LET rv == [r EXCEPT !.valid = Append(@, valid)] IN
          IF r.req.callback /\ valid
          THEN /\ sub_pools' = [sub_pools EXCEPT ![s] = [@ EXCEPT
                     !.used = StoreUsed(s, SetFlag(sub_pools[s].used, r.obj_idx, TRUE)),
                     !.used_count = Inc(@),
                     !.acquire_count = @ + 1]]
               /\ live' = [live EXCEPT ![r.object] = @ + 1]
               /\ served' = Append(served, r.req.context)
               /\ th' = [th EXCEPT ![t] =
                     [Callback(OnReuse(rv, r.object), r.object)
                        EXCEPT !.pc = "in_callback", !.req = NoReq,
                               !.called = Append(@, <<r.req.context, r.object>>)]]
          ELSE /\ sub_pools' = [sub_pools EXCEPT ![s].mutex = "none"]
               /\ th' = [th EXCEPT ![t] = Return(rv, 1)]
               /\ UNCHANGED <<live, served>>
    /\ UNCHANGED <<pool, dangling, heap, metadata, arrivals,
                   budget, active, pre>>

\* on_acquire: pool_release(pool, obj), called from inside the callback.
TutorialOnAcquire(t) ==
    LET r == th[t] IN
    /\ t # Inner
    /\ r.pc = "in_callback"
    /\ r.ctx = 1
    /\ th[Inner].pc = "idle"
    /\ th[Inner].op = "none"
    /\ th' = [th EXCEPT ![Inner] = [IdleThread EXCEPT
                 !.pc = "release_check", !.op = "release",
                 !.arg = r.object, !.object = r.object]]
    /\ UNCHANGED <<sub_pools, pool, dangling, heap, metadata, live, served,
                   arrivals, budget, active, pre>>

\* The callback returns, after the call it made has returned if it made
\* one; pool_release goes on at line 831 and releases the sub-pool mutex.
TutorialCallbackReturn(t) ==
    LET r == th[t] IN
    /\ t # Inner
    /\ r.pc = "in_callback"
    /\ \/ r.ctx = 0
       \/ th[Inner].pc = "idle" /\ th[Inner].op = "release"
    /\ sub_pools' = [sub_pools EXCEPT ![r.sub].mutex = "none"]
    /\ th' = [th EXCEPT ![t] = [r EXCEPT !.pc = "used_count", !.attempt = 0,
                                         !.total = 0],
                        ![Inner] = IdleThread]
    /\ UNCHANGED <<pool, dangling, heap, metadata, live, served, arrivals,
                   budget, active, pre>>

\* uv_mutex_lock at line 793 on a mutex the calling thread holds itself.  The
\* mutex is not recursive: with a libuv built without NDEBUG the lock fails
\* and uv_mutex_lock calls abort(); otherwise the thread waits for itself,
\* which is the step ReleaseLock never taking place.
TutorialAbort(t) ==
    LET r == th[t] IN
    /\ t # Inner
    /\ r.pc = "in_callback"
    /\ th[Inner].pc = "release_lock"
    /\ sub_pools[th[Inner].sub].mutex = t
    /\ th' = [th EXCEPT ![t] = [r EXCEPT !.pc = "aborted"],
                        ![Inner] = [th[Inner] EXCEPT !.pc = "aborted"]]
    /\ UNCHANGED <<sub_pools, pool, dangling, heap, metadata, live, served,
                   arrivals, budget, active, pre>>

\* pool_destroy(pool) at the end of main.
TutorialDestroy(t) ==
    /\ th[t].phase = "destroying"
    /\ pool_destroy(t)

\* The steps of the program short of abort().
TutorialRun(t) ==
    \/ TutorialAcquire(t)
    \/ TutorialRelease(t)
    \/ TutorialHandoff(t)
    \/ TutorialOnAcquire(t)
    \/ TutorialCallbackReturn(t)
    \/ TutorialDestroy(t)
    \/ AcquireProbe(t)
    \/ AcquirePark(t)
    \/ UsedCountStep(t)
    \/ MaxUsedRead(t)
    \/ MaxUsedWrite(t)
    \/ ReleaseCheck(t)
    \/ ReleaseLock(t)

NextTutorial == \E t \in Threads : TutorialRun(t) \/ TutorialAbort(t)

SpecTutorial == InitTutorial /\ [][NextTutorial]_vars

\* The program runs on as long as it has a step to take; abort() is a way
\* out that only some builds have.
SpecTutorialFair ==
    SpecTutorial /\ WF_vars(\E t \in Threads : TutorialRun(t))

\* -------------------------------------------------------------------- Next
\* The steps of pool_acquire and pool_release.
LeaseStep(t) ==
    \/ AcquireStart(t)
    \/ AcquireProbe(t)
    \/ AcquirePark(t)
    \/ AcquireGrowArg(t)
    \/ AcquireGrowQueue(t)
    \/ AcquireAppend(t)
    \/ UsedCountStep(t)
    \/ MaxUsedRead(t)
    \/ MaxUsedWrite(t)
    \/ ReleaseStart(t)
    \/ ReleaseCheck(t)
    \/ ReleaseLock(t)
    \/ ReleaseHandoff(t)

\* The steps of pool_grow and pool_shrink.
ResizeStep(t) ==
    \/ GrowStart(t)
    \/ GrowStep(t)
    \/ GrowFinish(t)
    \/ ShrinkStart(t)
    \/ ShrinkStep(t)
    \/ ShrinkFinish(t)

Next == \E t \in Threads : LeaseStep(t) \/ ResizeStep(t)

NextLease == \E t \in Threads : LeaseStep(t)

\* Any number of threads call lease, return, grow and shrink.
Spec == Init /\ [][Next]_vars

\* One thread calls lease, return, grow and shrink, one call after the other.
SpecSeq == InitSeq /\ [][Next]_vars

\* The life of a pool: one thread calls lease, return, grow and shrink, and
\* pool_destroy at the end.
NextLife ==
    \E t \in Threads : LeaseStep(t) \/ ResizeStep(t) \/ pool_destroy(t)

SpecLife == InitSeq /\ [][NextLife]_vars

\* One thread calls lease, return, grow and shrink on a pool of four objects
\* in two sub-pools.
SpecFourTwo == InitFourTwo /\ [][Next]_vars

\* Threads that only lease and return.
SpecLease == InitLease /\ [][NextLease]_vars

\* One thread that only leases and returns, one call after the other.
SpecLeaseSeq == InitLeaseSeq /\ [][NextLease]_vars

TypeOK == \A s \in Shards : Len(sub_pools[s].objects) = sub_pools[s].pool_size

\* ----------------------------------------------------------- observations
\* The slots of the sub-pools sp, as pairs of sub-pool and position.
SlotsOf(sp) ==
    UNION {{<<s, j>> : j \in 1..Len(sp[s].objects)} : s \in DOMAIN sp}

BusyIn(sp, p) ==
    \E x \in SlotsOf(sp) : sp[x[1]].objects[x[2]] = p /\ sp[x[1]].used[x[2]]

FreeIn(sp, p) ==
    \E x \in SlotsOf(sp) : sp[x[1]].objects[x[2]] = p /\ ~sp[x[1]].used[x[2]]

AllBusy(sp) == \A x \in SlotsOf(sp) : sp[x[1]].used[x[2]]

\* No slot of the pool in the state snap can yield the pointer p.
NotInPool(snap, p) ==
    \A x \in SlotsOf(snap.sub_pools) :
        p \notin ObjIn(snap.sub_pools, snap.dangling, x[1], x[2])

\* The last call of the single thread, after it has returned.
Last == th["t1"]

Returned(op) ==
    /\ active = {"t1"}
    /\ pre.valid
    /\ Last.pc = "idle"
    /\ Last.op = op

\* The hand-off of the object of the last call to the request that was the
\* oldest one when the call started.
HandedOff ==
    /\ Last.called = <<<<Head(pre.pool.request_queue).context, Last.object>>>>
    /\ pool.request_queue = Tail(pre.pool.request_queue)
    /\ BusyIn(sub_pools, Last.object)
    /\ UsedTotal = pre.used

\* ------------------------------------------------------------------ claims
\* C1: no object is held by two live leases at once: an object delivered by
\* pool_acquire or by a parked callback is not delivered again before a
\* pool_release of it has succeeded, whatever the threads do with lease,
\* return, grow and shrink.
C1_PointerUniqueness == \A p \in Addr : live[p] <= 1

\* C2: whenever the mutex of a sub-pool is free, its used_count is the
\* number of its slots whose used flag is set, and so at most its pool_size.
C2_BusyAccounting ==
    \A s \in Shards :
        sub_pools[s].mutex = "none" =>
            /\ \A j \in 1..sub_pools[s].pool_size : FlagAt(s, j) \in {{TRUE}, {FALSE}}
            /\ sub_pools[s].used_count =
                  Cardinality({j \in 1..sub_pools[s].pool_size :
                                  FlagAt(s, j) = {TRUE}})
            /\ sub_pools[s].used_count <= sub_pools[s].pool_size

\* C3 as stated: a return of a busy object while a request is parked pops the
\* oldest request and calls its callback once with the object and the context
\* of the request; afterwards the queue is one shorter, the object is busy
\* and the used count is the one before the return.
C3_ReturnHandsOff ==
    (/\ Returned("release")
     /\ BusyIn(pre.sub_pools, Last.object)
     /\ pre.pool.request_queue # <<>>)
    => (Last.ret = 1 /\ HandedOff)

\* C3, amended: the same, for a return during which allocator.validate
\* accepts the object both at the return and at the hand-off.
C3_ReturnHandsOffWhenValid ==
    (/\ Returned("release")
     /\ BusyIn(pre.sub_pools, Last.object)
     /\ pre.pool.request_queue # <<>>
     /\ Last.valid = <<TRUE, TRUE>>)
    => (Last.ret = 1 /\ HandedOff)

C3_Witness ==
    /\ Returned("release")
    /\ BusyIn(pre.sub_pools, Last.object)
    /\ Len(pre.pool.request_queue) = 2
    /\ Last.valid = <<TRUE, TRUE>>
    /\ Len(Last.called) = 1

\* C4: parked requests are served in the order of their arrival: the
\* callback of a request that was appended earlier is called earlier.
C4_ServedInArrivalOrder ==
    \A i \in 1..Len(served) : \A j \in 1..Len(served) :
        i < j => served[i] < served[j]

\* C5: with one thread and default_validate, a lease returns an object
\* whenever the used count is below the capacity, and fails when it is not.
C5_LeaseWhileNotFull ==
    (Returned("acquire") /\ pool.validate = "default")
    => (/\ (pre.used < pre.capacity) => (Last.ret \in heap)
        /\ (pre.used >= pre.capacity) => (Last.ret = NULL))

\* C6: a lease without a callback on a pool whose slots are all busy returns
\* NULL and reports EXHAUSTED once; the used count, the flags, the queue and
\* queue_max_size stay as they were.
C6_ExhaustedLease ==
    (Returned("acquire") /\ Last.arg = 0 /\ AllBusy(pre.sub_pools))
    => (/\ Last.ret = NULL
        /\ Last.errs = <<"EXHAUSTED">>
        /\ UsedTotal = pre.used
        /\ \A s \in Shards : sub_pools[s].used = pre.sub_pools[s].used
        /\ pool.request_queue = pre.pool.request_queue
        /\ pool.queue_max_size = pre.pool.queue_max_size)

C6_Witness ==
    /\ Returned("acquire")
    /\ Last.arg = 0
    /\ AllBusy(pre.sub_pools)
    /\ pre.capacity = 2
    /\ Last.errs = <<"EXHAUSTED">>

\* C7: the return of an object that is free fails: pool_release returns
\* false and reports INVALID_OBJECT once; the flag, the counters of the
\* sub-pool and the queue stay as they were.
C7_DoubleReturn ==
    (Returned("release") /\ FreeIn(pre.sub_pools, Last.object))
    => (/\ Last.ret = 0
        /\ Last.errs = <<"INVALID_OBJECT">>
        /\ sub_pools = pre.sub_pools
        /\ pool.request_queue = pre.pool.request_queue)

C7_Witness ==
    /\ Returned("release")
    /\ FreeIn(pre.sub_pools, Last.object)
    /\ \E s \in Shards : pre.sub_pools[s].release_count > 0
    /\ Last.valid = <<TRUE>>
    /\ Last.ret = 0

\* C8: the return of a pointer that is in no slot of the pool (any pointer
\* from elsewhere, or an object that pool_shrink destroyed) fails with
\* INVALID_OBJECT reported once and changes nothing of the pool.
C8_ForeignReturn ==
    (Returned("release") /\ NotInPool(pre, Last.object))
    => (/\ Last.ret = 0
        /\ Last.errs = <<"INVALID_OBJECT">>
        /\ sub_pools = pre.sub_pools
        /\ pool = pre.pool
        /\ dangling = pre.dangling
        /\ heap = pre.heap
        /\ metadata = pre.metadata)

C8_Witness ==
    /\ Returned("release")
    /\ NotInPool(pre, Last.object)
    /\ Last.object \in Addr \ pre.heap
    /\ pre.pool.shrink_count > 0
    /\ Last.ret = 0

\* The return that allocator.validate refuses (C9, first half): false,
\* INVALID_OBJECT, the object busy and the used count as before.
RefusedKeepsBusy ==
    (/\ Returned("release")
     /\ BusyIn(pre.sub_pools, Last.object)
     /\ Last.valid = <<FALSE>>)
    => (/\ Last.ret = 0
        /\ Last.errs = <<"INVALID_OBJECT">>
        /\ BusyIn(sub_pools, Last.object)
        /\ UsedTotal = pre.used)

\* The return of the busy object whose return was refused just before, now
\* accepted by allocator.validate.
RetriedReturn ==
    /\ Returned("release")
    /\ pre.refused = Last.object
    /\ BusyIn(pre.sub_pools, Last.object)
    /\ Len(Last.valid) >= 1
    /\ Last.valid[1]

C10_RejectedHandoffKeepsRequest ==
    (/\ Returned("release")
     /\ BusyIn(pre.sub_pools, Last.object)
     /\ pre.pool.request_queue # <<>>
     /\ Last.valid = <<TRUE, FALSE>>)
    => (/\ Last.called = <<>>
        /\ FreeIn(sub_pools, Last.object)
        /\ pool.request_queue = pre.pool.request_queue)

\* C11: the queue never holds more requests than it has room for:
\* queue_size <= queue_capacity in every state, whatever the threads park,
\* pop and grow.
C11_QueueWithinCapacity == Len(pool.request_queue) <= pool.queue_capacity

\* C12: pool_shrink never destroys an object that is held by a lease at the
\* moment it is destroyed, and the pass over a sub-pool never lowers the
\* capacity by more than the share of reduce_size that falls to the sub-pool
\* (the shares add up to reduce_size), whether the call succeeds or fails.
C12_ShrinkSafety ==
    [][/\ \A p \in heap \ heap' : live[p] = 0
       /\ \A t \in Threads :
             (th[t].pc = "shrink_step" /\ th'[t] # th[t])
             => (pool_capacity' >= pool_capacity
                                     - Share(th[t].arg, th[t].attempt))]_vars

\* C13: a pool_shrink that fails with INSUFFICIENT_UNUSED has destroyed no
\* object and leaves the capacity as it was before the call, however the busy
\* objects are spread over the sub-pools.
C13_RefusedShrinkChangesNothing ==
    (/\ Returned("shrink")
     /\ Last.ret = 0
     /\ Last.errs = <<"INSUFFICIENT_UNUSED">>)
    => (/\ heap = pre.heap
        /\ pool_capacity = pre.capacity)

\* What a read of slot j of sub-pool s yielded in the state snap: the
\* object and the flag.
SlotIn(snap, s, j) ==
    [object |-> ObjIn(snap.sub_pools, snap.dangling, s, j),
     used   |-> IF "used" \in snap.dangling[s] THEN BOOLEAN
                ELSE {snap.sub_pools[s].used[j]}]

SlotNow(s, j) == [object |-> ObjAt(s, j), used |-> FlagAt(s, j)]

\* C14: a pool_grow(n) that returns true has raised the capacity by n; sub-pool
\* i has n / sub_pool_count + (i < n mod sub_pool_count ? 1 : 0) more slots,
\* appended behind the old ones, each with a new object and a clear flag; every
\* old slot holds at its index what it held before, and every object that was
\* busy is still busy in the slot its header names, so it can be returned.
C14_GrowAppends ==
    (Returned("grow") /\ Last.ret = 1)
    => (/\ pool_capacity = pre.capacity + Last.arg
        /\ \A s \in Shards :
              LET old == pre.sub_pools[s]
                  new == sub_pools[s]
                  n == (Last.arg \div pool.sub_pool_count)
                         + (IF s < Last.arg % pool.sub_pool_count THEN 1 ELSE 0)
              IN  /\ new.pool_size = old.pool_size + n
                  /\ Len(new.objects) = new.pool_size
                  /\ Len(new.used) = new.pool_size
                  /\ \A j \in 1..old.pool_size :
                        SlotNow(s, j) = SlotIn(pre, s, j)
                  /\ \A j \in (old.pool_size + 1)..new.pool_size :
                        /\ new.objects[j] \in heap \ pre.heap
                        /\ ~new.used[j]
                        /\ metadata[new.objects[j]] =
                              [sub_pool |-> s, index |-> j - 1]
                  /\ new.used_count = old.used_count
        /\ \A p \in Addr :
              BusyIn(pre.sub_pools, p)
              => (/\ BusyIn(sub_pools, p)
                  /\ metadata[p] = pre.metadata[p]))

C14_Witness ==
    /\ Returned("grow")
    /\ Last.ret = 1
    /\ Last.arg = 1
    /\ pool.sub_pool_count = 2
    /\ \E p \in Addr : BusyIn(pre.sub_pools, p) /\ BusyIn(sub_pools, p)
    /\ sub_pools[0].pool_size = 2
    /\ sub_pools[1].pool_size = 1

\* C15: a pool_grow(n), n > 0, that fails has reported ALLOCATION_FAILED once
\* and returned false; it failed in some sub-pool k: the sub-pools before k
\* have their new size, k and the sub-pools behind it their old size;
\* total_objects_allocated and grow_count are what they were.
C15_FailedGrowIsPartial ==
    (Returned("grow") /\ Last.ret = 0 /\ Last.arg > 0)
    => (/\ Last.errs = <<"ALLOCATION_FAILED">>
        /\ pool.total_objects_allocated = pre.pool.total_objects_allocated
        /\ pool.grow_count = pre.pool.grow_count
        /\ \E k \in Shards :
              \A i \in Shards :
                 sub_pools[i].pool_size =
                    IF i < k
                    THEN pre.sub_pools[i].pool_size
                           + (Last.arg \div pool.sub_pool_count)
                           + (IF i < Last.arg % pool.sub_pool_count
                              THEN 1 ELSE 0)
                    ELSE pre.sub_pools[i].pool_size)

C15_Witness ==
    /\ Returned("grow")
    /\ Last.ret = 0
    /\ Last.arg = 2
    /\ pool.sub_pool_count = 2
    /\ sub_pools[0].pool_size = pre.sub_pools[0].pool_size + 1
    /\ sub_pools[1].pool_size = pre.sub_pools[1].pool_size
    /\ pool.grow_count = 0

\* C16: a pool_shrink(k) that returns true has lowered the capacity by k,
\* raised shrink_count by one and lowered total_objects_allocated by k.
C16_ShrinkLowersTotal ==
    (Returned("shrink") /\ Last.ret = 1)
    => (/\ pool_capacity = pre.capacity - Last.arg
        /\ pool.shrink_count = pre.pool.shrink_count + 1
        /\ pool.total_objects_allocated =
              pre.pool.total_objects_allocated - Last.arg)

\* C17: every slot (s, j) of the pool holds an object whose header names
\* sub-pool s and index j, and every object held by a lease is found through
\* its header in a slot that holds it and is marked busy.
C17_BackPointerFidelity ==
    /\ \A s \in Shards : \A j \in 1..sub_pools[s].pool_size :
          \A o \in ObjAt(s, j) :
             /\ o \in heap
             /\ metadata[o] = [sub_pool |-> s, index |-> j - 1]
    /\ \A p \in Ptr :
          live[p] > 0
          => (/\ p \in heap
              /\ metadata[p].index < sub_pools[metadata[p].sub_pool].pool_size
              /\ ObjAt(metadata[p].sub_pool, metadata[p].index + 1) = {p}
              /\ FlagAt(metadata[p].sub_pool, metadata[p].index + 1) = {TRUE})

\* The mutexes thread t holds.
SubsHeld(t) == {s \in Shards : sub_pools[s].mutex = t}

HoldsQueue(t) == pool.queue_mutex = t

\* C18: no thread holds the mutexes of two sub-pools at once; a thread that
\* is about to lock a sub-pool mutex holds no mutex at all, so none is locked
\* under the queue mutex; a thread that has returned holds no mutex; and as
\* long as some call is under way, some call under way can take a step.
C18_LockOrder ==
    /\ \A t \in Threads : Cardinality(SubsHeld(t)) <= 1
    /\ \A t \in Threads :
          th[t].pc \in SubLockPcs => (~HoldsQueue(t) /\ SubsHeld(t) = {})
    /\ \A t \in Threads :
          th[t].pc = "idle" => (~HoldsQueue(t) /\ SubsHeld(t) = {})
    /\ (\E t \in Threads : th[t].pc # "idle")
       => (\E t \in Threads : th[t].pc # "idle" /\ ENABLED LockStep(t))

\* A return holds its sub-pool mutex and the queue mutex while the other
\* thread waits for the queue mutex.
C18_Witness ==
    /\ th["t1"].pc = "rel_qlocked"
    /\ HoldsQueue("t1")
    /\ SubsHeld("t1") # {}
    /\ th["t2"].pc \in QueueLockPcs
    /\ ~ENABLED LockStep("t2")

\* The threads of the scenario that have returned their object.
Finished == {t \in Threads : th[t].phase \in {"done_direct", "done_callback"}}

\* acquired_count: the threads whose lease returned an object.
Direct == {t \in Threads : th[t].phase \in {"direct", "done_direct"}}

\* C19: in the backpressure scenario every thread obtains an object, returns
\* it and ends, in every fair interleaving.
C19_EveryThreadEnds == <>(Finished = Threads)

RECURSIVE SumSubs(_, _)
SumSubs(field, i) ==
    IF i = pool.sub_pool_count THEN 0
    ELSE sub_pools[i][field] + SumSubs(field, i + 1)

RECURSIVE SumLen(_)
SumLen(T) ==
    IF T = {} THEN 0
    ELSE LET t == CHOOSE t \in T : TRUE
         IN  Len(th[t].objects) + SumLen(T \ {t})

\* total_success: the leases of all threads that returned an object.
total_success == SumLen(Threads)

Joined == \A t \in Threads : th[t].phase = "joined"

\* C21: when threads that lease without a callback and then return every
\* object they got have all ended, the used count is 0, the acquire counts
\* and the release counts of the sub-pools each add up to the number of
\* leases that returned an object, and the error callback was called with
\* EXHAUSTED only.
C21_QuiescentCounts ==
    Joined
    => (/\ UsedTotal = 0
        /\ SumSubs("acquire_count", 0) = total_success
        /\ SumSubs("release_count", 0) = total_success
        /\ \A t \in Threads : \A k \in 1..Len(th[t].errs) :
              th[t].errs[k] = "EXHAUSTED"
        /\ \A p \in Ptr : live[p] = 0)

\* All threads have ended, an object was leased again after its return, and
\* a lease found the pool exhausted.
C21_Witness ==
    /\ Joined
    /\ total_success > pool_capacity
    /\ \E t \in Threads : th[t].errs # <<>>
    /\ pool.sub_pool_count = 2

\* C22: pool->max_used never decreases: whatever step the threads take with
\* lease, return, hand-off, grow and shrink, its value after the step is at
\* least its value before.
C22_PeakNeverDecreases == [][pool'.max_used >= pool.max_used]_vars

\* C23: at every sample point pool->max_used is at least the max_used of
\* every sub-pool and at least the sum of the used counts of the sub-pools.
\* The sample points taken here are those at which every call has returned,
\* which the claim includes.
C23_GlobalPeakDominates ==
    (\A t \in Threads : th[t].pc = "idle")
    => (/\ \A s \in Shards : pool.max_used >= sub_pools[s].max_used
        /\ pool.max_used >= UsedTotal)

\* C24: with one thread, pool->max_used is after every lease and every return
\* the largest used count the pool has had: it was at least the used count
\* when the call started, it is the larger of what it was and the used count
\* now, and it has risen exactly when the call was a lease that got an object
\* and took the used count above it.
C24_PeakTracksUsed ==
    (Returned("acquire") \/ Returned("release"))
    => (/\ pre.pool.max_used >= pre.used
        /\ pool.max_used = IF UsedTotal > pre.pool.max_used
                           THEN UsedTotal ELSE pre.pool.max_used
        /\ (pool.max_used > pre.pool.max_used)
           <=> (/\ Last.op = "acquire"
                /\ Last.ret # NULL
                /\ pre.used + 1 > pre.pool.max_used))

\* A lease that got an object while the used count was below the peak of 2
\* and left the peak as it was.
C24_Witness ==
    /\ Returned("acquire")
    /\ Last.ret # NULL
    /\ pre.used = 0
    /\ UsedTotal = 1
    /\ pre.pool.max_used = 2
    /\ pool.max_used = 2

\* C25: over the life of a pool every object on which on_create was called
\* receives on_destroy exactly once.  on_create is called on the objects that
\* allocator.alloc returns and on_destroy on those handed to allocator.free,
\* so that once pool_destroy has run no object is left in the heap.
C25_CreatedAreDestroyed == (active = {}) => (heap = {})

\* C26: every object delivered has had allocator.reset applied after the use
\* of the holder before and before on_reuse and the delivery.  A lease that
\* returns an object took it from a free slot and called reset and then
\* on_reuse on it; a return that hands its object over called reset, then
\* on_reuse, then the callback on it; and every return that succeeds called
\* reset first.
C26_ResetBeforeDelivery ==
    /\ (Returned("acquire") /\ Last.ret # NULL)
       => (/\ Last.hooks = <<<<"reset", Last.ret>>, <<"on_reuse", Last.ret>>>>
           /\ FreeIn(pre.sub_pools, Last.ret))
    /\ (Returned("release") /\ Last.called # <<>>)
       => (/\ Last.hooks = <<<<"reset", Last.object>>,
                             <<"on_reuse", Last.object>>,
                             <<"callback", Last.object>>>>
           /\ BusyIn(pre.sub_pools, Last.object))
    /\ (Returned("release") /\ Last.ret = 1)
       => (Len(Last.hooks) >= 1 /\ Last.hooks[1] = <<"reset", Last.object>>)
    /\ (Returned("release") /\ Last.ret = 1 /\ Last.called = <<>>)
       => (Last.hooks = <<<<"reset", Last.object>>>>)

\* An object that was leased, returned with a hand-off to a parked request
\* and returned again, is leased once more.
C26_Witness ==
    /\ Returned("acquire")
    /\ Last.ret # NULL
    /\ served # <<>>
    /\ Last.hooks = <<<<"reset", Last.ret>>, <<"on_reuse", Last.ret>>>>
    /\ \E s \in Shards : sub_pools[s].release_count >= 2

\* The last call parked its request.
Parked ==
    /\ Last.op = "acquire"
    /\ Last.ret = NULL
    /\ Len(pool.request_queue) = Len(pre.pool.request_queue) + 1

\* The kinds of error with which a call of op can fail.
KindsOf(op) ==
    CASE op = "acquire" -> {"EXHAUSTED", "QUEUE_FULL"}
      [] op = "release" -> {"INVALID_OBJECT"}
      [] op = "grow"    -> {"INVALID_SIZE", "ALLOCATION_FAILED"}
      [] op = "shrink"  -> {"INVALID_SIZE", "INSUFFICIENT_UNUSED",
                            "ALLOCATION_FAILED"}

\* C27: a call of lease, return, grow or shrink that returns a failure value
\* has called the error callback exactly once, with the kind of the failure;
\* a call that succeeds or parks its request has not called it.
C27_OneErrorPerFailure ==
    \A op \in {"acquire", "release", "grow", "shrink"} :
        Returned(op)
        => IF Last.ret # 0 \/ Parked
           THEN Last.errs = <<>>
           ELSE /\ Len(Last.errs) = 1
                /\ Last.errs[1] \in KindsOf(op)

\* C28: the pool that pool_create(pool_size, sub_pool_count) returns, for any
\* pool_size >= 1 and sub_pool_count >= 1, has capacity pool_size, used count
\* 0 and total_objects_allocated pool_size.
C28_CreatedCapacity ==
    \A pool_size \in 1..MaxPoolSize, sub_pool_count \in 1..MaxShards,
       validate \in {"default", "custom"} :
        (/\ budget = MaxOpsSeq
         /\ pool_create(pool_size, sub_pool_count, validate))
        => (/\ pool_capacity = pool_size
            /\ UsedTotal = 0
            /\ pool.total_objects_allocated = pool_size)

\* The contexts of the requests parked in the queue.
Waiting == {pool.request_queue[i].context : i \in 1..Len(pool.request_queue)}

\* The contexts whose callbacks were called.
Called == {served[i] : i \in 1..Len(served)}

\* C29: the callback of a parked request is called at most once over the
\* pool's life, and exactly once when the request receives an object: a step
\* calls at most one callback, that of the request pool_release has just
\* popped, which was never called before, is no longer parked, and receives
\* the returned object as a delivery; pool_destroy calls no callback, and the
\* requests still parked at that moment are never called.
C29_CallbackAtMostOnce ==
    /\ [](\A i, j \in 1..Len(served) : served[i] = served[j] => i = j)
    /\ [](Called \cap Waiting = {})
    /\ [][\/ served' = served
          \/ \E t \in Threads :
                /\ th[t].pc = "release_handoff"
                /\ th[t].req.callback
                /\ th[t].req.context \notin Called \cup Waiting
                /\ served' = Append(served, th[t].req.context)
                /\ live'[th[t].object] = live[th[t].object] + 1
                /\ th'[t].called =
                      Append(th[t].called, <<th[t].req.context, th[t].object>>)
                /\ active' # {}]_vars
    /\ [][active' = {} => served' = served /\ Waiting' = Waiting]_vars

C29_Witness ==
    /\ active = {}
    /\ Last.op = "destroy"
    /\ Len(served) > 0
    /\ Waiting # {}

\* The last call was a lease with a callback that found no object.
LeaseFoundNothing ==
    /\ Returned("acquire")
    /\ Last.arg = 1
    /\ Last.ret = NULL

\* The queue was full when the last call started.
QueueWasFull == Len(pre.pool.request_queue) = pre.pool.queue_capacity

\* The kinds of error the last call reported.
Reported == {Last.errs[i] : i \in 1..Len(Last.errs)}

\* C30: a lease with a callback that finds no object while the queue is full
\* doubles queue_capacity, adds one to queue_grow_count, appends its request
\* and returns NULL without a QUEUE_FULL report; QUEUE_FULL is reported only
\* when growing the queue failed, and then the queue is as it was; a lease
\* that found room in the queue appends its request and leaves the capacity.
C30_FullQueueDoubles ==
    LeaseFoundNothing
    => IF "QUEUE_FULL" \in Reported
       THEN /\ QueueWasFull
            /\ "ALLOCATION_FAILED" \in Reported
            /\ pool.request_queue = pre.pool.request_queue
            /\ pool.queue_capacity = pre.pool.queue_capacity
            /\ pool.queue_grow_count = pre.pool.queue_grow_count
       ELSE /\ pool.request_queue =
                  Append(pre.pool.request_queue,
                         [callback |-> TRUE, context |-> arrivals])
            /\ pool.queue_capacity =
                  IF QueueWasFull
                  THEN pre.pool.queue_capacity + pre.pool.queue_capacity
                  ELSE pre.pool.queue_capacity
            /\ pool.queue_grow_count =
                  pre.pool.queue_grow_count + (IF QueueWasFull THEN 1 ELSE 0)
            /\ Len(pool.request_queue) <= pool.queue_capacity

C30_Witness ==
    /\ LeaseFoundNothing
    /\ pre.used = pre.capacity
    /\ QueueWasFull
    /\ pre.pool.queue_capacity = 2
    /\ pool.queue_capacity = 4
    /\ pool.queue_grow_count = 2
    /\ Len(pool.request_queue) = 3

\* The last call started on the pool of four objects in two sub-pools after
\* three successful leases followed by one successful return (three objects
\* were held at once), with no grow or shrink before it.
ThreeLeasedOneReturned ==
    /\ pre.pool.max_used = 3
    /\ pre.pool.sub_pool_count = 2
    /\ pre.capacity = 4
    /\ pre.pool.grow_count = 0
    /\ pre.pool.shrink_count = 0
    /\ \A s \in 0..1 : pre.sub_pools[s].pool_size = 2 /\ pre.dangling[s] = {}
    /\ pre.sub_pools[0].acquire_count + pre.sub_pools[1].acquire_count = 3
    /\ pre.sub_pools[0].release_count + pre.sub_pools[1].release_count = 1
    /\ pre.used = 2

\* C31: on the pool of four objects in two sub-pools, after three successful
\* leases and the return of one of the three objects, pool_shrink(pool, 2)
\* succeeds and leaves a capacity of 2 (unless realloc fails), wherever the
\* leases were placed and whichever object was returned.
C31_ShrinkTwoSucceeds ==
    (/\ Returned("shrink")
     /\ Last.arg = 2
     /\ ThreeLeasedOneReturned
     /\ "ALLOCATION_FAILED" \notin Reported)
    => (/\ Last.ret = 1
        /\ pool_capacity = 2)

\* The callback on_acquire of the tutorial has been entered by a hand-off.
InOnAcquire == th["t1"].pc = "in_callback" /\ th["t1"].ctx = 1

\* C32: a return whose hand-off calls on_acquire, which returns the object it
\* is given to the same pool, completes: the inner and the outer pool_release
\* return and the program goes on to pool_destroy.
C32_NestedReturnCompletes == InOnAcquire ~> (active = {})

\* C33: whenever no call is under way, parked requests mean that no sub-pool
\* has a free slot: an object that becomes available, by a return or by a
\* grow, goes to the oldest parked request.  (Pools with the default validate
\* hook, whose arrays are all in place and hold an object in every slot.)
C33_ParkedMeansExhausted ==
    (/\ \A t \in Threads : th[t].pc = "idle"
     /\ pool.validate = "default"
     /\ \A s \in Shards : dangling[s] = {}
     /\ \A x \in SlotsOf(sub_pools) : sub_pools[x[1]].objects[x[2]] # NULL
     /\ pool.request_queue # <<>>)
    => AllBusy(sub_pools)

\* C34: a return finds the sub-pool and the slot of its object through the
\* header in front of the object alone, in a number of steps that does not
\* depend on the number of sub-pools or slots: the only slot it looks at
\* before it locks is the one the header names.
C34_NoScanOnReturn ==
    \A t \in Threads :
        (/\ th[t].pc = "release_check"
         /\ th[t].object \in heap
         /\ \A s \in Shards : dangling[s] = {}
         /\ BusyIn(sub_pools, th[t].object))
        => Searched(th[t].object)
              \subseteq {<<metadata[th[t].object].sub_pool,
                           metadata[th[t].object].index + 1>>}

\* The free slots of sub-pool s below position j.
FreeBelow(s, j) == {k \in 1..(j - 1) : ~sub_pools[s].used[k]}

\* The INVALID_OBJECT reports that the step adds to the errors of thread t.
NewReports(t) == Len(th'[t].errs) - Len(th[t].errs)

\* C35: a direct lease probes the sub-pools in the order start_idx,
\* start_idx + 1, ... modulo sub_pool_count, each one once, and takes the
\* lowest free slot that allocator.validate accepts in the first sub-pool
\* that has one: the free slots below the one it takes were all refused, and
\* a sub-pool it leaves behind had all its free slots refused.
C35_LowestFreeValidSlot ==
    [][\A t \in Threads :
          (th[t].pc = "acquire_probe" /\ th'[t] # th[t])
          => LET r == th[t]
                 s == (r.start_idx + r.attempt) % pool.sub_pool_count
                 sub == sub_pools[s]
             IN  IF th'[t].pc = "used_count"
                 THEN \E j \in 1..sub.pool_size :
                         /\ ~sub.used[j]
                         /\ sub.objects[j] = th'[t].object
                         /\ sub_pools'[s].used = [sub.used EXCEPT ![j] = TRUE]
                         /\ NewReports(t) = Cardinality(FreeBelow(s, j))
                         /\ \A u \in Shards \ {s} : sub_pools'[u] = sub_pools[u]
                 ELSE /\ sub_pools' = sub_pools
                      /\ NewReports(t)
                            = Cardinality(FreeBelow(s, sub.pool_size + 1))
                      /\ th'[t].start_idx = r.start_idx
                      /\ IF r.attempt + 1 < pool.sub_pool_count
                         THEN /\ th'[t].pc = "acquire_probe"
                              /\ th'[t].attempt = r.attempt + 1
                         ELSE th'[t].pc = "acquire_park"]_vars

C35_Witness ==
    /\ Last.pc = "used_count"
    /\ Last.op = "acquire"
    /\ metadata[Last.object].sub_pool # Last.start_idx
    /\ Last.errs # <<>>
    /\ ~sub_pools[Last.start_idx].used[1]

\* The free slots of the sub-pools sp.
FreeSlots(sp) == {x \in SlotsOf(sp) : ~sp[x[1]].used[x[2]]}

\* The number of INVALID_OBJECT reports of the last call.
InvalidReports ==
    Cardinality({i \in 1..Len(Last.errs) : Last.errs[i] = "INVALID_OBJECT"})

\* C36: a lease passes over the free slots whose object allocator.validate
\* refuses: each of them is reported as INVALID_OBJECT, stays free and leaves
\* the counters alone, and the lease still returns a free slot that validates
\* if there is one: a lease that returns no object has reported every free
\* slot of the pool, and a lease that returns one has changed nothing but the
\* flag of that slot and the counters of its sub-pool.
C36_InvalidSlotsSkipped ==
    Returned("acquire")
    => LET free == FreeSlots(pre.sub_pools) IN
       IF Last.ret = NULL
       THEN /\ InvalidReports = Cardinality(free)
            /\ sub_pools = pre.sub_pools
       ELSE \E x \in free :
              /\ pre.sub_pools[x[1]].objects[x[2]] = Last.ret
              /\ InvalidReports < Cardinality(free)
              /\ sub_pools = [pre.sub_pools EXCEPT ![x[1]] = [@ EXCEPT
                    !.used = [@ EXCEPT ![x[2]] = TRUE],
                    !.used_count = @ + 1,
                    !.acquire_count = @ + 1,
                    !.max_used = IF pre.sub_pools[x[1]].used_count + 1 > @
                                 THEN pre.sub_pools[x[1]].used_count + 1
                                 ELSE @]]

C36_Witness ==
    /\ Returned("acquire")
    /\ Last.ret # NULL
    /\ InvalidReports = 1
    /\ metadata[Last.ret].index = 1
    /\ ~sub_pools[metadata[Last.ret].sub_pool].used[1]

\* C37: when pool_release, holding the mutex of the sub-pool, reads or
\* clears the flag of the slot it found before it locked, the index is still
\* below the size of the sub-pool and the slot still holds the returned
\* pointer, whatever returns and shrinks other threads made in between.
\* (Sub-pools whose arrays are in place.)
C37_CheckedSlotStillThere ==
    [][\A t \in Threads :
          (/\ th[t].pc = "release_lock"
           /\ th'[t] # th[t]
           /\ dangling[th[t].sub] = {})
          => (/\ th[t].obj_idx < sub_pools[th[t].sub].pool_size
              /\ sub_pools[th[t].sub].objects[th[t].obj_idx + 1]
                    = th[t].object)]_vars

\* The three counters of sub-pool s.
Counters(sp, s) ==
    <<sp[s].acquire_count, sp[s].release_count, sp[s].used_count>>

\* C38: in every sub-pool whose mutex is not held, acquire_count minus
\* release_count is used_count; a step changes the three counters of a
\* sub-pool only as a direct lease (acquire_count and used_count up by one), as
\* a return (release_count up by one, used_count down by one) or as a
\* hand-off (acquire_count and used_count up by one again); refused calls,
\* grow and shrink leave them alone.
C38_CountersBalance ==
    /\ [](\A s \in Shards :
            sub_pools[s].mutex = "none"
            => sub_pools[s].acquire_count - sub_pools[s].release_count
                  = sub_pools[s].used_count)
    /\ [][\A s \in Shards :
            LET a == sub_pools[s].acquire_count
                r == sub_pools[s].release_count
                u == sub_pools[s].used_count
            IN  \/ Counters(sub_pools', s) = <<a, r, u>>
                \/ /\ Counters(sub_pools', s) = <<a + 1, r, u + 1>>
                   /\ \E t \in Threads :
                         /\ th[t].pc \in {"acquire_probe", "release_handoff"}
                         /\ th[t].op \in {"acquire", "release"}
                         /\ th'[t] # th[t]
                \/ /\ Counters(sub_pools', s) = <<a, r + 1, u - 1>>
                   /\ \E t \in Threads :
                         /\ th[t].pc = "release_lock"
                         /\ th'[t] # th[t]]_vars

\* No object of the pool was busy when the last call started, and every slot
\* held an object in arrays that are still allocated.
NothingBusy ==
    /\ FreeSlots(pre.sub_pools) = SlotsOf(pre.sub_pools)
    /\ \A s \in 0..(pre.pool.sub_pool_count - 1) : pre.dangling[s] = {}
    /\ \A x \in SlotsOf(pre.sub_pools) :
          pre.sub_pools[x[1]].objects[x[2]] # NULL

\* C39: with no object busy, pool_shrink(pool, n) for 1 <= n <= capacity
\* returns true and lowers pool_capacity by exactly n (unless realloc
\* reports a failure), whatever creates, grows and shrinks gave the sub-pools
\* their sizes.
C39_IdleShrinkSucceeds ==
    (/\ Returned("shrink")
     /\ NothingBusy
     /\ Last.arg >= 1
     /\ Last.arg <= pre.capacity
     /\ "ALLOCATION_FAILED" \notin Reported)
    => (/\ Last.ret = 1
        /\ pool_capacity = pre.capacity - Last.arg)
====
